---- MODULE Spec2Model ----
(***************************************************************************)
(* A model of qarbon's task engine (src/qarbon/engine.py): an Engine wraps *)
(* a generator function; a Runner drives the generator, executes every     *)
(* yielded Task or group of Tasks on a scoped executor, polls the futures  *)
(* with a timeout while calling update_gui(), and resumes the generator    *)
(* with the result (send) or the failure (throw).                          *)
(*                                                                         *)
(* The generator is the environment: each time it is resumed it may yield  *)
(* another item, finish, call return_result, or raise.  The workers of the *)
(* executor are the second environment: each pending future completes at   *)
(* any moment.  What becomes of a StopIteration that leaves a generator's   *)
(* frame depends on the interpreter: the caller of next/send/throw sees it *)
(* as it is (the Python the source is written for, where `async` is a      *)
(* method name), or sees RuntimeError in its place (PEP 479).  Both are     *)
(* modelled; the interpreter is fixed for a run.                            *)
(*                                                                         *)
(* A second specification, SpecSignal, models qarbon's signals             *)
(* (src/qarbon/signal.py, callable_weakref of src/qarbon/util.py): slots   *)
(* are connected to, disconnected from and called by the per-instance      *)
(* signals of two objects, and are destroyed while connected.              *)
(*                                                                         *)
(* SpecExecutor and SpecThreads model the module-level executor of         *)
(* src/qarbon/executor.py (Executor, submit, map, shutdown, and            *)
(* SerialExecutor): called by one thread, and by several threads whose     *)
(* steps interleave between any two reads or writes of the module global.  *)
(***************************************************************************)
EXTENDS Integers, Sequences, FiniteSets, TLC

\* Bounds of the model.
MaxArg == 3      \* a single Task is called with an argument in 1..MaxArg
MaxGroup == 2    \* a yielded group has at most MaxGroup members
MaxPolls == 2    \* a polling loop is followed through at most MaxPolls timeouts
MaxEntries == 3  \* the signals hold at most MaxEntries connection entries in all
MaxPayload == 1  \* emit is called as emit() or as emit(n, k1=n), n in 1..MaxPayload
MaxThreads == 2  \* the threads that call the functions of the executor module
MaxInstances == 2 \* the executor instances the module creates in a run

VARIABLES
    pc,         \* where the wrapped call is (wrapper, Runner.run, its helpers)
    gen,        \* the generator: "none", "created", "running", "suspended", "finished", "closed"
    task,       \* run()'s local `task`: the item being dispatched
    executor,   \* the executor of the current `with` block
    futures,    \* the futures of the current step, in submission order
    completed,  \* the same futures, in the order in which they completed
    resumed,    \* how the generator's running code was resumed, and with what
    segment,    \* what the generator's code did after it was resumed last
    raised,     \* the exception propagating in the Runner, if any
    result,     \* the outcome of the Engine-wrapped call
    lazy,       \* the generator object of _execute_multi_gen_task (unordered group)
    pulled,     \* what the last next() on that object gave the generator's code
    emitted,    \* the futures whose results that object has yielded, in order
    pep479,     \* the interpreter replaces a StopIteration leaving a generator's frame
    open,       \* the number of executors created by the Runner and not yet shut down
    polling,    \* the timeouts and update_gui() calls of the polling loop under way
    resumes,    \* the send() and throw() calls made on the generator for the item in `task`
    signals,    \* the Signal objects: their __slots and __cache
    qarbon_signals, \* obj._qarbon_signals__: the per-instance signal of each object
    alive,      \* the callables that still exist (a bound method: its owner)
    im_func,    \* the interpreter's bound methods have im_func and im_self (Python 2)
    call,       \* the Signal operation under way, or the last one made
    calls,      \* the slot calls that operation has made, in order
    bodies,     \* what the body of each callable does when it is called
    __EXECUTOR, \* executor.py's module global: 0 for None, or the instance
    instances,  \* the executor instances created by Executor(), in creation order
    threads,    \* the call of the executor module each thread is in
    ret,        \* the outcome of the call of the executor module that ended last
    config      \* qarbon.config: EXECUTOR

vars == <<pc, gen, task, executor, futures, completed, resumed, segment, raised, result,
          lazy, pulled, emitted, pep479, open, polling, resumes,
          signals, qarbon_signals, alive, im_func, call, calls, bodies,
          __EXECUTOR, instances, threads, ret, config>>

\* The state of the executor module, which the Engine and the signals leave alone.
moduleVars == <<__EXECUTOR, instances, threads, ret, config>>

\* What the Engine and its Runner leave alone: the signals.
signalVars == <<signals, qarbon_signals, alive, im_func, call, calls, bodies>>

\* What the signals leave alone: the Engine and its Runner.
engineVars == <<pc, gen, task, executor, futures, completed, resumed, segment, raised, result,
                lazy, pulled, emitted, pep479, open, polling, resumes>>

\* What the Runner's own steps leave alone: the lazy sequence of an unordered group.
lazyVars == <<lazy, pulled, emitted, pep479>>

----------------------------------------------------------------------------
\* Python values: an int, a list of ints, None, or an exception instance.
\* `val` holds the ints; an exception's `val` is its argument, and for a
\* ReturnResult its `result` attribute, whose kind is `pk`.

PyNone == [kind |-> "None", type |-> "", pk |-> "", val |-> <<>>]
PyInt(v) == [kind |-> "int", type |-> "", pk |-> "", val |-> <<v>>]
PyList(s) == [kind |-> "list", type |-> "", pk |-> "", val |-> s]
Exc(type, v) == [kind |-> "exc", type |-> type, pk |-> "int", val |-> <<v>>]

\* ReturnResult(result): the exception carrying `result`.
ReturnResult(r) == [kind |-> "exc", type |-> "ReturnResult", pk |-> r.kind, val |-> r.val]

\* e.result of a ReturnResult instance e.
ResultOf(e) == [kind |-> e.pk, type |-> "", pk |-> "", val |-> e.val]

NoExc == [kind |-> "", type |-> "", pk |-> "", val |-> <<>>]

\* The exception e as it leaves the frame of a generator that raised it.
LeavesFrame(e) ==
    IF pep479 /\ e.type = "StopIteration" THEN Exc("RuntimeError", 0) ELSE e

\* The generator object an unordered group sends into the generator.
ResultsGen == [kind |-> "generator", type |-> "", pk |-> "", val |-> <<>>]

----------------------------------------------------------------------------
\* Task descriptors.  The callables are those of the spec's test workflow:
\* square returns a*a; the others raise.

Task(cls, func, arg) == [cls |-> cls, func |-> func, arg |-> arg]

\* Task.start: self.func(*self.args, **self.kwargs), as a value or the
\* exception the call raises.
start(t) ==
    CASE t.func = "square" -> PyInt(t.arg * t.arg)
      [] t.func = "fail" -> Exc("ValueError", t.arg)
      [] t.func = "raise_timeout" -> Exc("TimeoutError", t.arg)
      [] t.func = "raise_stop" -> Exc("StopIteration", t.arg)
      [] t.func = "raise_return" -> ReturnResult(PyInt(t.arg))

CpuCount == 4

\* MultiTask.__init__ (and MultiProcessTask.__init__, whose max_workers
\* defaults to the number of cores); max_workers = 0 stands for None.
MultiTask(cls, tasks, max_workers, skip_errors, unordered) ==
    LET mw == IF cls = "MultiProcessTask" /\ max_workers = 0
              THEN CpuCount ELSE max_workers
    IN [cls |-> cls, tasks |-> tasks,
        max_workers |-> IF mw # 0 THEN mw ELSE Len(tasks),
        skip_errors |-> skip_errors, unordered |-> unordered]

\* A yielded single Task, in the shape of an item.
Single(t) == [cls |-> t.cls, tasks |-> <<t>>, max_workers |-> 1,
              skip_errors |-> FALSE, unordered |-> FALSE]

\* A yielded bare list or tuple of Tasks.
BareList(ts) == [cls |-> "list", tasks |-> ts, max_workers |-> 0,
                 skip_errors |-> FALSE, unordered |-> FALSE]

NoTask == [cls |-> "", tasks |-> <<>>, max_workers |-> 0,
           skip_errors |-> FALSE, unordered |-> FALSE]

IsMultiTask(item) == item.cls \in {"MultiTask", "MultiProcessTask", "MultiGTask"}

\* The class attribute executor_class of Task and its subclasses.
executor_class(cls) ==
    CASE cls \in {"Task", "MultiTask"} -> "ThreadPoolExecutor"
      [] cls \in {"ProcessTask", "MultiProcessTask"} -> "ProcessPoolExecutor"
      [] cls \in {"GTask", "MultiGTask"} -> "GeventPoolExecutor"

\* The items the modelled drivers yield.  A single Task: square of 1..MaxArg
\* in each Task class, and each raising callable.  A group of n members:
\* member i is called with argument i, so that the members' outcomes differ;
\* a bare list draws its callables from all of them, and also mixes the
\* Task classes; an explicit MultiTask, ordered (where skip_errors=False
\* makes it the group a bare list becomes) or unordered, draws them from
\* square, fail and raise_stop (skip_errors and the lazy sequence tell
\* StopIteration from every other exception type, and no other types
\* apart).  The empty groups are the empty list, and MultiTask([]),
\* MultiTask([], max_workers=2) and MultiProcessTask([]).  The unordered
\* group on the gevent pool has MaxGroup members, which call square.
Classes == {"Task", "ProcessTask", "GTask"}

Callables == {"square", "fail", "raise_timeout", "raise_stop", "raise_return"}

SingleTasks ==
    {Task(c, "square", a) : c \in Classes, a \in 1..MaxArg}
    \cup {Task("Task", f, 1) : f \in Callables}

Groups(F) ==
    UNION {{[i \in 1..n |-> Task("Task", fs[i], i)] : fs \in [1..n -> F]} :
           n \in 1..MaxGroup}

ClassGroups ==
    UNION {{[i \in 1..n |-> Task(cs[i], "square", i)] : cs \in [1..n -> Classes]} :
           n \in 1..MaxGroup}

Items ==
    {Single(t) : t \in SingleTasks}
    \cup {BareList(g) : g \in Groups(Callables) \cup ClassGroups \cup {<<>>}}
    \cup {MultiTask("MultiTask", g, 0, se, un) :
            g \in Groups({"square", "fail", "raise_stop"}), se \in BOOLEAN, un \in BOOLEAN}
    \cup {MultiTask("MultiTask", <<>>, mw, FALSE, FALSE) : mw \in {0, 2}}
    \cup {MultiTask("MultiProcessTask", <<>>, 0, FALSE, FALSE)}
    \cup {MultiTask("MultiGTask", g, 0, FALSE, TRUE) :
            g \in {h \in Groups({"square"}) : Len(h) = MaxGroup}}

----------------------------------------------------------------------------
\* qarbon.signal.Signal and qarbon.util.callable_weakref.

\* The callables connected as slots: a function, and the bound method slot1
\* of an object a.
Slots == {"temp_func", "a.slot1"}

\* The objects of a class that declares `changed = Signal()`.
Objects == {"o1", "o2"}

\* The Signal objects: the class attribute `changed`, and the per-instance
\* signal of each object, named after the object.
SignalIds == {"changed"} \cup Objects

\* The args and kwargs of an emit.
Payload(n) == [args |-> <<n>>, kwargs |-> <<<<"k1", n>>>>]

Payloads == {[args |-> <<>>, kwargs |-> <<>>]} \cup {Payload(n) : n \in 1..MaxPayload}

\* Signal.__init__: no slots, and no cache (None is the empty sequence, a
\* cached emit the sequence holding its args and kwargs).
Signal(emit_on_connect) ==
    [slots |-> <<>>, cache |-> <<>>, emit_on_connect |-> emit_on_connect]

\* The state when no Signal operation has been made.
\* start: the callables of the entries the signal had when emit was called.
Idle == [op |-> "", target |-> "", sig |-> "", slot |-> "",
         payload |-> <<>>, i |-> 0, state |-> "idle", start |-> <<>>]

\* What a callable does when it is called: it returns; it raises (a
\* function, which has a __name__, or a callable object, which has none);
\* or, a function still, it disconnects itself from the signal that calls
\* it, or connects a.slot1 to it.
Bodies == {"returns", "raises", "raises_unnamed", "disconnects", "connects"}

\* The signals as created with emit_on_connect=e, nothing connected; the
\* signal of an object is made at the first access of its attribute.
SignalsInit(e, py2) ==
    /\ signals = [s \in SignalIds |-> Signal(e)]
    /\ qarbon_signals = [o \in Objects |-> "none"]
    /\ alive = [s \in Slots |-> TRUE]
    /\ im_func = py2
    /\ call = Idle
    /\ calls = <<>>
    /\ bodies = [s \in Slots |-> "returns"]

\* A thread that is in no call of the executor module.
\* n: the calls a map() is to submit, one for each element of its iterable.
NoCall == [op |-> "", pc |-> "idle", fn |-> "", n |-> 0, e |-> 0]

\* No call of the executor module has ended yet.
NoRet == [op |-> "", how |-> "none", inst |-> 0, future |-> "none", exc |-> ""]

\* executor.py as imported (line 85: __EXECUTOR = None), called by n threads,
\* with config.EXECUTOR = kind.
ModuleInit(kind, n) ==
    /\ __EXECUTOR = 0
    /\ instances = <<>>
    /\ threads = [t \in 1..n |-> NoCall]
    /\ ret = NoRet
    /\ config = [EXECUTOR |-> kind]

----------------------------------------------------------------------------
\* shutdowns: the shutdown() calls this executor has received.
NoExecutor == [state |-> "none", cls |-> "", max_workers |-> 0, shutdowns |-> 0]

NoResume == [how |-> "none", v |-> PyNone]

\* lazy.state: "none"; "created" (no code of it has run); "running";
\* "suspended" (at its yield); "finished"; "stale" (created, never advanced,
\* and the with block of its executor has ended).  task: its argument, the
\* group; unfinished, done: its locals; todo: the part of `done` the for
\* loop has not reached.
NoLazy == [state |-> "none", task |-> NoTask, unfinished |-> {}, done |-> {}, todo |-> {}]

\* A future is "pending" until its call has finished ("done"); "late" is
\* pending too, for a call submitted to an executor after its shutdown();
\* "killed" is the future of a greenlet that shutdown() killed.
Pending == {"pending", "late"}

NoPull == [how |-> "none", v |-> PyNone]

\* timeouts: the polls of the loop that found work pending; guis: the calls
\* of update_gui() the loop has made.  Both are local to one polling loop of
\* _execute_single_task or _execute_multi_task.
NoPolling == [timeouts |-> 0, guis |-> 0]

Init ==
    /\ pc = "call"
    /\ gen = "none"
    /\ task = NoTask
    /\ executor = NoExecutor
    /\ futures = <<>>
    /\ completed = <<>>
    /\ resumed = NoResume
    /\ segment = "none"
    /\ raised = NoExc
    /\ result = [how |-> "none", v |-> PyNone]
    /\ lazy = NoLazy
    /\ pulled = NoPull
    /\ emitted = <<>>
    /\ pep479 \in BOOLEAN
    /\ open = 0
    /\ polling = NoPolling
    /\ resumes = 0
    /\ SignalsInit(TRUE, TRUE)
    /\ ModuleInit("thread", 1)

----------------------------------------------------------------------------
\* Engine.async.wrapper: call func; if it returned a generator, run it with
\* a new Runner and return what run() returns; otherwise return None.
wrapper(isGenerator) ==
    /\ pc = "call"
    /\ IF isGenerator
       THEN /\ gen' = "created"
            /\ pc' = "run"
            /\ UNCHANGED result
       ELSE /\ result' = [how |-> "return", v |-> PyNone]
            /\ pc' = "done"
            /\ UNCHANGED gen
    /\ UNCHANGED <<task, executor, futures, completed, resumed, resumes, segment, raised, lazyVars, open, polling>>
    /\ UNCHANGED <<signalVars, moduleVars>>

\* Runner.run, line 256: task = next(gen), before the try statement.
run ==
    /\ pc = "run"
    /\ gen' = "running"
    /\ resumed' = [how |-> "next", v |-> PyNone]
    /\ pc' = "gen"
    /\ UNCHANGED <<task, executor, futures, completed, segment, raised, result, lazyVars, open, polling, resumes>>
    /\ UNCHANGED <<signalVars, moduleVars>>

----------------------------------------------------------------------------
\* The generator's code, from the point it was resumed at to the point it
\* gives control back to the Runner.

InWith == executor.state = "open"

\* It reaches a yield: the generator is suspended, and next/send/throw
\* returns to the Runner with the yielded item, which the model draws in
\* Yielded.  Of a lazy sequence the code keeps only one it has never
\* advanced.
GenYield ==
    /\ pc = "gen"
    /\ gen' = "suspended"
    /\ task' = NoTask
    /\ segment' = "yield"
    /\ raised' = NoExc
    /\ resumed' = NoResume
    /\ resumes' = 0
    /\ lazy' = IF lazy.state \in {"created", "stale"} THEN lazy ELSE NoLazy
    /\ pulled' = NoPull
    /\ emitted' = <<>>
    /\ pc' = IF InWith THEN "exit" ELSE "loop"
    /\ UNCHANGED <<executor, futures, completed, result, pep479, open, polling>>
    /\ UNCHANGED <<signalVars, moduleVars>>

\* An exception leaves the generator's frame.
GenEnds(e, what) ==
    /\ pc = "gen"
    /\ gen' = "finished"
    /\ segment' = what
    /\ raised' = e
    /\ pc' = IF InWith THEN "exit" ELSE "propagate"
    /\ UNCHANGED <<task, executor, futures, completed, resumed, resumes, result, lazyVars, open, polling>>
    /\ UNCHANGED <<signalVars, moduleVars>>

\* It returns: the generator is exhausted.
GenFinish == GenEnds(Exc("StopIteration", 0), "finish")

\* return_result(result): raise ReturnResult(result).
return_result(r) == ReturnResult(r)

\* It calls return_result with the value it was sent, or with 0.
GenReturnResult(received) ==
    /\ received => resumed.how = "send" /\ resumed.v.kind \in {"int", "list"}
    /\ GenEnds(return_result(IF received THEN resumed.v ELSE PyInt(0)),
               IF received THEN "return_received" ELSE "return_result")

\* It does not catch the exception thrown into it ("thrown"), or the one
\* the lazy sequence raised while it iterated it ("pulled"), or it raises
\* one of its own ("own").
GenRaise(from) ==
    /\ from = "thrown" => resumed.how = "throw"
    /\ from = "pulled" => pulled.how = "raise"
    /\ GenEnds(CASE from = "thrown" -> LeavesFrame(resumed.v)
                 [] from = "pulled" -> LeavesFrame(pulled.v)
                 [] OTHER -> Exc("KeyError", 0),
               IF from = "own" THEN "error" ELSE "uncaught")

----------------------------------------------------------------------------
\* Runner.run, lines 256, 271 and 273: `task` is the item the generator
\* yielded.  The generator chose the item when it yielded; the model draws
\* it here, where the Runner first reads it.
Yielded(item) ==
    /\ pc = "loop"
    /\ task' = item
    /\ pc' = "normalize"
    /\ UNCHANGED <<gen, executor, futures, completed, resumed, resumes, segment, raised, result, lazyVars, open, polling>>
    /\ UNCHANGED <<signalVars, moduleVars>>

\* Normalize without the inspection of the first element: a bare list
\* always becomes a MultiTask on the thread pool.
Normalize_AlwaysThread ==
    /\ pc = "normalize"
    /\ IF task.cls = "list"
       THEN IF Len(task.tasks) = 0
            THEN /\ raised' = Exc("AssertionError", 0)
                 /\ pc' = "except"
                 /\ UNCHANGED task
            ELSE /\ task' = MultiTask(
                        "MultiTask",
                        task.tasks, 0, FALSE, FALSE)
                 /\ pc' = "with"
                 /\ UNCHANGED raised
       ELSE /\ pc' = "with"
            /\ UNCHANGED <<task, raised>>
    /\ UNCHANGED <<gen, executor, futures, completed, resumed, resumes, segment, result, lazyVars, open, polling>>
    /\ UNCHANGED <<signalVars, moduleVars>>

\* Runner.run, lines 259-267: a bare list or tuple becomes a MultiTask of
\* the family of its first element.
Normalize ==
    /\ pc = "normalize"
    /\ IF task.cls = "list"
       THEN IF Len(task.tasks) = 0
            THEN /\ raised' = Exc("AssertionError", 0)
                 /\ pc' = "except"
                 /\ UNCHANGED task
            ELSE /\ task' = MultiTask(
                        CASE task.tasks[1].cls = "ProcessTask" -> "MultiProcessTask"
                          [] task.tasks[1].cls = "GTask" -> "MultiGTask"
                          [] OTHER -> "MultiTask",
                        task.tasks, 0, FALSE, FALSE)
                 /\ pc' = "with"
                 /\ UNCHANGED raised
       ELSE /\ pc' = "with"
            /\ UNCHANGED <<task, raised>>
    /\ UNCHANGED <<gen, executor, futures, completed, resumed, resumes, segment, result, lazyVars, open, polling>>
    /\ UNCHANGED <<signalVars, moduleVars>>

\* Line 269: with task.executor_class(task.max_workers) as executor.  The
\* constructors of the thread and process pools raise ValueError for
\* max_workers <= 0 ("max_workers must be greater than 0"); the exception
\* is raised inside the try statement of run(), before any with block.
Acquire ==
    /\ pc = "with"
    /\ IF task.max_workers <= 0 /\ executor_class(task.cls) # "GeventPoolExecutor"
       THEN /\ raised' = Exc("ValueError", 0)
            /\ pc' = "except"
            /\ UNCHANGED <<executor, futures, completed, open>>
       ELSE /\ executor' = [state |-> "open", cls |-> executor_class(task.cls),
                            max_workers |-> task.max_workers, shutdowns |-> 0]
            /\ futures' = <<>>
            /\ completed' = <<>>
            /\ open' = open + 1
            /\ pc' = IF IsMultiTask(task) THEN "multi" ELSE "single"
            /\ UNCHANGED raised
    /\ UNCHANGED <<gen, task, resumed, resumes, segment, result, lazyVars, polling>>
    /\ UNCHANGED <<signalVars, moduleVars>>

\* A worker of the executor finishes the call of future i.
Complete(i) ==
    /\ i \in DOMAIN futures
    /\ futures[i] \in Pending
    /\ futures' = [futures EXCEPT ![i] = "done"]
    /\ completed' = Append(completed, i)
    /\ UNCHANGED <<pc, gen, task, executor, resumed, resumes, segment, raised, result, lazyVars, open, polling>>
    /\ UNCHANGED <<signalVars, moduleVars>>

\* gen.send(value) and gen.throw(exception).
Resume(how, v) ==
    /\ resumed' = [how |-> how, v |-> v]
    /\ resumes' = resumes + 1
    /\ gen' = "running"
    /\ pc' = "gen"

\* _execute_single_task, line 281: future = executor.submit(task).
SubmitSingle ==
    /\ pc = "single"
    /\ futures' = <<"pending">>
    /\ pc' = "poll"
    /\ UNCHANGED <<completed, gen, task, executor, resumed, resumes, segment, raised, result, lazyVars, open, polling>>
    /\ UNCHANGED <<signalVars, moduleVars>>

\* future.result(timeout) of future i: TimeoutError while it is pending,
\* the call's value or its exception once it is done.
future_result(i) ==
    IF futures[i] = "pending" THEN Exc("TimeoutError", 0) ELSE start(task.tasks[i])

\* Poll with the with block ended before the generator is resumed: the
\* executor is shut down first, then the result is sent or thrown.
Poll_ResumeOutsideWith ==
    /\ pc = "poll"
    /\ LET r == future_result(1) IN
       IF r.kind = "exc" /\ r.type = "TimeoutError"
       THEN /\ polling.timeouts < MaxPolls
            /\ polling' = [polling EXCEPT !.timeouts = @ + 1]
            /\ pc' = "gui"
            /\ UNCHANGED <<gen, resumed, resumes, executor, open>>
       ELSE /\ Resume(IF r.kind = "exc" THEN "throw" ELSE "send", r)
            /\ polling' = NoPolling
            /\ executor' = [NoExecutor EXCEPT !.state = "shutdown",
                                              !.shutdowns = executor.shutdowns + 1]
            /\ open' = open - 1
    /\ UNCHANGED <<task, futures, completed, segment, raised, result, lazyVars>>
    /\ UNCHANGED <<signalVars, moduleVars>>

\* Poll with the result dropped: the generator is resumed with None.
Poll_SendNone ==
    /\ pc = "poll"
    /\ LET r == future_result(1) IN
       IF r.kind = "exc" /\ r.type = "TimeoutError"
       THEN /\ polling.timeouts < MaxPolls
            /\ polling' = [polling EXCEPT !.timeouts = @ + 1]
            /\ pc' = "gui"
            /\ UNCHANGED <<gen, resumed, resumes>>
       ELSE IF r.kind = "exc"
       THEN /\ Resume("throw", r)
            /\ polling' = NoPolling
       ELSE /\ Resume("send", PyNone)
            /\ polling' = NoPolling
    /\ UNCHANGED <<task, executor, futures, completed, segment, raised, result, lazyVars, open>>
    /\ UNCHANGED <<signalVars, moduleVars>>

\* Poll without the except futures.TimeoutError clause: the timeout of the
\* poll is handled by except Exception and thrown into the generator.
Poll_ThrowTimeout ==
    /\ pc = "poll"
    /\ LET r == future_result(1) IN
       IF r.kind = "exc"
       THEN /\ Resume("throw", r)
            /\ polling' = NoPolling
       ELSE /\ Resume("send", r)
            /\ polling' = NoPolling
    /\ UNCHANGED <<task, executor, futures, completed, segment, raised, result, lazyVars, open>>
    /\ UNCHANGED <<signalVars, moduleVars>>

\* The polling loop with line 289 not returning: the loop goes on after
\* gen.throw, finds the same failure and throws it again.
Poll_ThrowTwice ==
    /\ pc = "poll"
    /\ LET r == future_result(1) IN
       IF r.kind = "exc" /\ r.type = "TimeoutError"
       THEN /\ polling.timeouts < MaxPolls
            /\ polling' = [polling EXCEPT !.timeouts = @ + 1]
            /\ pc' = "gui"
            /\ UNCHANGED <<gen, resumed, resumes>>
       ELSE IF r.kind = "exc"
       THEN /\ resumed' = [how |-> "throw", v |-> r]
            /\ resumes' = resumes + 2
            /\ gen' = "running"
            /\ pc' = "gen"
            /\ polling' = NoPolling
       ELSE /\ Resume("send", r)
            /\ polling' = NoPolling
    /\ UNCHANGED <<task, executor, futures, completed, segment, raised, result, lazyVars, open>>
    /\ UNCHANGED <<signalVars, moduleVars>>

\* _execute_single_task, lines 283-291: one turn of the polling loop.
Poll ==
    /\ pc = "poll"
    /\ LET r == future_result(1) IN
       IF r.kind = "exc" /\ r.type = "TimeoutError"
       THEN /\ polling.timeouts < MaxPolls
            /\ polling' = [polling EXCEPT !.timeouts = @ + 1]
            /\ pc' = "gui"
            /\ UNCHANGED <<gen, resumed, resumes>>
       ELSE IF r.kind = "exc"
       THEN /\ Resume("throw", r)
            /\ polling' = NoPolling
       ELSE /\ Resume("send", r)
            /\ polling' = NoPolling
    /\ UNCHANGED <<task, executor, futures, completed, segment, raised, result, lazyVars, open>>
    /\ UNCHANGED <<signalVars, moduleVars>>

\* Engine.update_gui, called from a polling loop.
update_gui ==
    /\ pc \in {"gui", "lz_gui"}
    /\ pc' = CASE pc = "lz_gui" -> "lz_done"
              [] IsMultiTask(task) -> "wait"
              [] OTHER -> "poll"
    /\ polling' = IF pc = "gui" THEN [polling EXCEPT !.guis = @ + 1] ELSE polling
    /\ UNCHANGED <<gen, task, executor, futures, completed, resumed, resumes, segment, raised, result, lazyVars, open>>
    /\ UNCHANGED <<signalVars, moduleVars>>

\* _execute_multi_task, line 298: submit every member.
SubmitMulti ==
    /\ pc = "multi"
    /\ ~task.unordered
    /\ futures' = [i \in 1..Len(task.tasks) |-> "pending"]
    /\ pc' = "wait"
    /\ UNCHANGED <<completed, gen, task, executor, resumed, resumes, segment, raised, result, lazyVars, open, polling>>
    /\ UNCHANGED <<signalVars, moduleVars>>

\* MultiTask.wait: True when no future is left pending.
wait(fs) == \A i \in fs : futures[i] = "done"

RECURSIVE Results(_, _)
\* [f.result() for f in future_tasks] from index i on, without the members
\* that raised (lines 305-310).
Results(i, n) ==
    IF i > n THEN <<>>
    ELSE LET r == future_result(i) IN
         (IF r.kind = "exc" THEN <<>> ELSE r.val) \o Results(i + 1, n)

\* The futures whose result() raises.
Failed == {i \in DOMAIN futures : future_result(i).kind = "exc"}

Min(S) == CHOOSE x \in S : \A y \in S : x <= y

RECURSIVE ResultsOf(_)
\* The successful results of the futures listed in fs, in that order.
ResultsOf(fs) ==
    IF fs = <<>> THEN <<>>
    ELSE LET r == future_result(Head(fs)) IN
         (IF r.kind = "exc" THEN <<>> ELSE r.val) \o ResultsOf(Tail(fs))

\* Wait collecting the results in completion order (as as_completed would).
Wait_CompletionOrder ==
    /\ pc = "wait"
    /\ IF ~wait(DOMAIN futures)
       THEN /\ polling.timeouts < MaxPolls
            /\ polling' = [polling EXCEPT !.timeouts = @ + 1]
            /\ pc' = "gui"
            /\ UNCHANGED <<gen, resumed, resumes>>
       ELSE IF ~task.skip_errors /\ Failed # {}
       THEN /\ Resume("throw", future_result(Min(Failed)))
            /\ polling' = NoPolling
       ELSE /\ Resume("send", PyList(ResultsOf(completed)))
            /\ polling' = NoPolling
    /\ UNCHANGED <<task, executor, futures, completed, segment, raised, result, lazyVars, open>>
    /\ UNCHANGED <<signalVars, moduleVars>>

\* Wait without the skip_errors branch: any failure is thrown.
Wait_NoSkip ==
    /\ pc = "wait"
    /\ IF ~wait(DOMAIN futures)
       THEN /\ polling.timeouts < MaxPolls
            /\ polling' = [polling EXCEPT !.timeouts = @ + 1]
            /\ pc' = "gui"
            /\ UNCHANGED <<gen, resumed, resumes>>
       ELSE IF Failed # {}
       THEN /\ Resume("throw", future_result(Min(Failed)))
            /\ polling' = NoPolling
       ELSE /\ Resume("send", PyList(Results(1, Len(futures))))
            /\ polling' = NoPolling
    /\ UNCHANGED <<task, executor, futures, completed, segment, raised, result, lazyVars, open>>
    /\ UNCHANGED <<signalVars, moduleVars>>

\* Wait with the skip_errors branch taken always: failures are dropped.
Wait_AlwaysSkip ==
    /\ pc = "wait"
    /\ IF ~wait(DOMAIN futures)
       THEN /\ polling.timeouts < MaxPolls
            /\ polling' = [polling EXCEPT !.timeouts = @ + 1]
            /\ pc' = "gui"
            /\ UNCHANGED <<gen, resumed, resumes>>
       ELSE /\ Resume("send", PyList(Results(1, Len(futures))))
            /\ polling' = NoPolling
    /\ UNCHANGED <<task, executor, futures, completed, segment, raised, result, lazyVars, open>>
    /\ UNCHANGED <<signalVars, moduleVars>>

\* Wait throwing the failure that happened first in time, not the one of
\* the lowest index.
Wait_FirstFailedInTime ==
    /\ pc = "wait"
    /\ IF ~wait(DOMAIN futures)
       THEN /\ polling.timeouts < MaxPolls
            /\ polling' = [polling EXCEPT !.timeouts = @ + 1]
            /\ pc' = "gui"
            /\ UNCHANGED <<gen, resumed, resumes>>
       ELSE IF ~task.skip_errors /\ Failed # {}
       THEN /\ LET k == Min({j \in DOMAIN completed : completed[j] \in Failed})
               IN Resume("throw", future_result(completed[k]))
            /\ polling' = NoPolling
       ELSE /\ Resume("send", PyList(Results(1, Len(futures))))
            /\ polling' = NoPolling
    /\ UNCHANGED <<task, executor, futures, completed, segment, raised, result, lazyVars, open>>
    /\ UNCHANGED <<signalVars, moduleVars>>

\* _execute_multi_task, lines 299-316: one turn of the waiting loop, and
\* the collection of the results once every member is done.
Wait ==
    /\ pc = "wait"
    /\ IF ~wait(DOMAIN futures)
       THEN /\ polling.timeouts < MaxPolls
            /\ polling' = [polling EXCEPT !.timeouts = @ + 1]
            /\ pc' = "gui"
            /\ UNCHANGED <<gen, resumed, resumes>>
       ELSE IF ~task.skip_errors /\ Failed # {}
       THEN /\ Resume("throw", future_result(Min(Failed)))
            /\ polling' = NoPolling
       ELSE /\ Resume("send", PyList(Results(1, Len(futures))))
            /\ polling' = NoPolling
    /\ UNCHANGED <<task, executor, futures, completed, segment, raised, result, lazyVars, open>>
    /\ UNCHANGED <<signalVars, moduleVars>>

----------------------------------------------------------------------------
\* _execute_multi_task without the branch of lines 294-296: an unordered
\* group is submitted and waited for like an ordered one.
LazyCreate_Ordered ==
    /\ pc = "multi"
    /\ task.unordered
    /\ futures' = [i \in 1..Len(task.tasks) |-> "pending"]
    /\ pc' = "wait"
    /\ UNCHANGED <<completed, gen, task, executor, resumed, resumes, segment, raised, result, lazyVars, open, polling>>
    /\ UNCHANGED <<signalVars, moduleVars>>

\* _execute_multi_task, lines 294-296: an unordered group.  The generator
\* object is created (none of its code runs) and sent into the generator.
LazyCreate ==
    /\ pc = "multi"
    /\ task.unordered
    /\ lazy' = [NoLazy EXCEPT !.state = "created", !.task = task]
    /\ pulled' = NoPull
    /\ emitted' = <<>>
    /\ Resume("send", ResultsGen)
    /\ UNCHANGED <<task, executor, futures, completed, segment, raised, result, pep479, open, polling>>
    /\ UNCHANGED <<signalVars, moduleVars>>

\* The generator's code calls next() on the lazy sequence for the first
\* time; line 319 submits every member to the step's executor.
LazyStart ==
    /\ pc = "gen"
    /\ lazy.state = "created"
    /\ futures' = [i \in 1..Len(lazy.task.tasks) |-> "pending"]
    /\ lazy' = [lazy EXCEPT !.state = "running", !.unfinished = 1..Len(lazy.task.tasks)]
    /\ pc' = "lz_wait"
    /\ UNCHANGED <<completed, gen, task, executor, resumed, resumes, segment, raised, result,
                   pulled, emitted, pep479, open, polling>>
    /\ UNCHANGED <<signalVars, moduleVars>>

\* The same first next() after the with block of its executor has ended.
\* The submit() of a thread or process pool that was shut down raises
\* RuntimeError, which ends the lazy sequence.  GeventPoolExecutor.submit
\* (lines 120-122) spawns on its pool whether or not shutdown() has killed
\* the pool's greenlets: the members start now, outside every with block,
\* and the futures of the step under way, all done, are out of reach.
\* The modelled drivers advance a sequence they kept past its step only
\* when they are resumed with the result of a single Task.
LazyStartStale ==
    /\ pc = "gen"
    /\ lazy.state = "stale"
    /\ task.cls \in Classes
    /\ resumed.how = "send"
    /\ IF lazy.task # NoTask
       THEN /\ futures' = [i \in 1..Len(lazy.task.tasks) |-> "late"]
            /\ completed' = <<>>
            /\ lazy' = [lazy EXCEPT !.state = "running",
                                    !.unfinished = 1..Len(lazy.task.tasks)]
            /\ pc' = "lz_wait"
            /\ UNCHANGED pulled
       ELSE /\ lazy' = [lazy EXCEPT !.state = "finished"]
            /\ pulled' = [how |-> "raise", v |-> Exc("RuntimeError", 0)]
            /\ UNCHANGED <<pc, futures, completed>>
    /\ UNCHANGED <<gen, task, executor, resumed, resumes, segment, raised, result,
                   emitted, pep479, open, polling>>
    /\ UNCHANGED <<signalVars, moduleVars>>

\* A later next(): the lazy sequence goes on after its yield (line 331).
LazyNext ==
    /\ pc = "gen"
    /\ lazy.state = "suspended"
    /\ lazy' = [lazy EXCEPT !.state = "running"]
    /\ pc' = "lz_for"
    /\ UNCHANGED <<gen, task, executor, futures, completed, resumed, resumes, segment, raised, result,
                   pulled, emitted, pep479, open, polling>>
    /\ UNCHANGED <<signalVars, moduleVars>>

\* next() on the lazy sequence after it has raised or ended: its frame is
\* gone, so the call raises StopIteration and nothing of lines 318-332 runs.
LazyNextFinished ==
    /\ pc = "gen"
    /\ lazy.state = "finished"
    /\ pulled.how \in {"raise", "stop"}
    /\ pulled' = [how |-> "stop", v |-> PyNone]
    /\ UNCHANGED <<pc, gen, task, executor, futures, completed, resumed, resumes, segment, raised, result,
                   lazy, emitted, pep479, open, polling>>
    /\ UNCHANGED <<signalVars, moduleVars>>

\* Lines 320-322: while unfinished: if not task.wait(...): update_gui().
\* With nothing unfinished the sequence ends (StopIteration to its consumer).
LazyWait ==
    /\ pc = "lz_wait"
    /\ IF lazy.unfinished = {}
       THEN /\ lazy' = [lazy EXCEPT !.state = "finished"]
            /\ pulled' = [how |-> "stop", v |-> PyNone]
            /\ pc' = "gen"
       ELSE /\ pc' = IF wait(lazy.unfinished) THEN "lz_done" ELSE "lz_gui"
            /\ UNCHANGED <<lazy, pulled>>
    /\ UNCHANGED <<gen, task, executor, futures, completed, resumed, resumes, segment, raised, result,
                   emitted, pep479, open, polling>>
    /\ UNCHANGED <<signalVars, moduleVars>>

\* Line 323: done = set(f for f in unfinished if f.done()).
LazyDone ==
    /\ pc = "lz_done"
    /\ LET done == {f \in lazy.unfinished : futures[f] = "done"} IN
       lazy' = [lazy EXCEPT !.done = done, !.todo = done]
    /\ pc' = "lz_for"
    /\ UNCHANGED <<gen, task, executor, futures, completed, resumed, resumes, segment, raised, result,
                   pulled, emitted, pep479, open, polling>>
    /\ UNCHANGED <<signalVars, moduleVars>>

\* The for loop without unfinished.difference_update(done) after it.
LazyFor_NoDifference ==
    /\ pc = "lz_for"
    /\ IF lazy.todo = {}
       THEN /\ pc' = "lz_wait"
            /\ UNCHANGED <<lazy, pulled, emitted>>
       ELSE \E f \in lazy.todo :
            LET r == start(lazy.task.tasks[f]) IN
            IF r.kind # "exc"
            THEN /\ lazy' = [lazy EXCEPT !.state = "suspended", !.todo = lazy.todo \ {f}]
                 /\ pulled' = [how |-> "value", v |-> r]
                 /\ emitted' = Append(emitted, f)
                 /\ pc' = "gen"
            ELSE IF lazy.task.skip_errors
            THEN /\ lazy' = [lazy EXCEPT !.todo = lazy.todo \ {f}]
                 /\ UNCHANGED <<pc, pulled, emitted>>
            ELSE /\ lazy' = [lazy EXCEPT !.state = "finished"]
                 /\ pulled' = IF LeavesFrame(r).type = "StopIteration"
                              THEN [how |-> "stop", v |-> PyNone]
                              ELSE [how |-> "raise", v |-> LeavesFrame(r)]
                 /\ pc' = "gen"
                 /\ UNCHANGED emitted
    /\ UNCHANGED <<gen, task, executor, futures, completed, resumed, resumes, segment, raised, result, pep479, open, polling>>
    /\ UNCHANGED <<signalVars, moduleVars>>

\* The for loop with a failure that does not end the sequence: the exception
\* is handed to the consumer and the sequence stays suspended, as if it had
\* yielded.
LazyFor_RaiseAndGoOn ==
    /\ pc = "lz_for"
    /\ IF lazy.todo = {}
       THEN /\ lazy' = [lazy EXCEPT !.unfinished = lazy.unfinished \ lazy.done]
            /\ pc' = "lz_wait"
            /\ UNCHANGED <<pulled, emitted>>
       ELSE \E f \in lazy.todo :
            LET r == start(lazy.task.tasks[f]) IN
            IF r.kind # "exc"
            THEN /\ lazy' = [lazy EXCEPT !.state = "suspended", !.todo = lazy.todo \ {f}]
                 /\ pulled' = [how |-> "value", v |-> r]
                 /\ emitted' = Append(emitted, f)
                 /\ pc' = "gen"
            ELSE IF lazy.task.skip_errors
            THEN /\ lazy' = [lazy EXCEPT !.todo = lazy.todo \ {f}]
                 /\ UNCHANGED <<pc, pulled, emitted>>
            ELSE /\ lazy' = [lazy EXCEPT !.state = "suspended", !.todo = lazy.todo \ {f}]
                 /\ pulled' = [how |-> "raise", v |-> LeavesFrame(r)]
                 /\ pc' = "gen"
                 /\ UNCHANGED emitted
    /\ UNCHANGED <<gen, task, executor, futures, completed, resumed, resumes, segment, raised, result, pep479, open, polling>>
    /\ UNCHANGED <<signalVars, moduleVars>>

\* Lines 324-332: the for loop over `done`, a set, so in any order: yield
\* the result of f, or skip its exception, or let it end the sequence; after
\* the loop, unfinished.difference_update(done).  A StopIteration that
\* leaves the frame of the lazy sequence as it is, is the end of the
\* sequence for its consumer.
LazyFor ==
    /\ pc = "lz_for"
    /\ IF lazy.todo = {}
       THEN /\ lazy' = [lazy EXCEPT !.unfinished = lazy.unfinished \ lazy.done]
            /\ pc' = "lz_wait"
            /\ UNCHANGED <<pulled, emitted>>
       ELSE \E f \in lazy.todo :
            LET r == start(lazy.task.tasks[f]) IN
            IF r.kind # "exc"
            THEN /\ lazy' = [lazy EXCEPT !.state = "suspended", !.todo = lazy.todo \ {f}]
                 /\ pulled' = [how |-> "value", v |-> r]
                 /\ emitted' = Append(emitted, f)
                 /\ pc' = "gen"
            ELSE IF lazy.task.skip_errors
            THEN /\ lazy' = [lazy EXCEPT !.todo = lazy.todo \ {f}]
                 /\ UNCHANGED <<pc, pulled, emitted>>
            ELSE /\ lazy' = [lazy EXCEPT !.state = "finished"]
                 /\ pulled' = IF LeavesFrame(r).type = "StopIteration"
                              THEN [how |-> "stop", v |-> PyNone]
                              ELSE [how |-> "raise", v |-> LeavesFrame(r)]
                 /\ pc' = "gen"
                 /\ UNCHANGED emitted
    /\ UNCHANGED <<gen, task, executor, futures, completed, resumed, resumes, segment, raised, result, pep479, open, polling>>
    /\ UNCHANGED <<signalVars, moduleVars>>

\* The lazy sequence lz past the end of the with block it was created in.
\* The generator's code keeps no lazy sequence it has started past the step;
\* one it has never advanced it may keep, bound to the executor that is now
\* shut down.  Of its group the model keeps what its first advance depends
\* on: the group itself on the gevent pool, nothing on a thread or process
\* pool, whose submit() raises whatever the group.
Outlives(lz) ==
    IF lz.state \notin {"created", "stale"} THEN NoLazy
    ELSE IF lz.state = "stale" THEN lz
    ELSE [NoLazy EXCEPT !.state = "stale",
                        !.task = IF executor_class(lz.task.cls) = "GeventPoolExecutor"
                                 THEN lz.task ELSE NoTask]

\* Executor.shutdown(wait=True) as it leaves the futures fs of executor e:
\* GeventPoolExecutor.shutdown (lines 124-125) kills the greenlets still
\* running; the futures of calls submitted to another executor are not its.
shutdown(e, fs) ==
    [i \in DOMAIN fs |-> IF fs[i] = "pending" /\ e.cls = "GeventPoolExecutor"
                         THEN "killed" ELSE fs[i]]

\* The step's end without a with statement: shutdown() is called after the
\* step, and so not when an exception leaves it.
ExitWith_NoFinally ==
    /\ pc = "exit"
    /\ IF raised = NoExc
       THEN /\ executor.cls # "GeventPoolExecutor" =>
                   \A i \in DOMAIN futures : futures[i] # "pending"
            /\ futures' = shutdown(executor, futures)
            /\ executor' = [NoExecutor EXCEPT !.state = "shutdown",
                                              !.shutdowns = executor.shutdowns + 1]
            /\ open' = open - 1
       ELSE UNCHANGED <<executor, futures, open>>
    /\ pc' = IF raised = NoExc THEN "loop" ELSE "except"
    /\ lazy' = Outlives(lazy)
    /\ pulled' = NoPull
    /\ emitted' = <<>>
    /\ UNCHANGED <<gen, task, completed, resumed, resumes, segment, raised, result, pep479, polling>>
    /\ UNCHANGED <<signalVars, moduleVars>>

\* The step's end with the release left to the garbage collector when the
\* generator yielded: shutdown() is called only when an exception ends the run.
ExitWith_NoShutdown ==
    /\ pc = "exit"
    /\ executor.cls # "GeventPoolExecutor" => \A i \in DOMAIN futures : futures[i] # "pending"
    /\ futures' = shutdown(executor, futures)
    /\ IF raised = NoExc
       THEN UNCHANGED <<executor, open>>
       ELSE /\ executor' = [NoExecutor EXCEPT !.state = "shutdown",
                                              !.shutdowns = executor.shutdowns + 1]
            /\ open' = open - 1
    /\ pc' = IF raised = NoExc THEN "loop" ELSE "except"
    /\ lazy' = Outlives(lazy)
    /\ pulled' = NoPull
    /\ emitted' = <<>>
    /\ UNCHANGED <<gen, task, completed, resumed, resumes, segment, raised, result, pep479, polling>>
    /\ UNCHANGED <<signalVars, moduleVars>>

\* The end of the with block: Executor.__exit__ calls shutdown(wait=True),
\* which on a thread or process pool returns when every call submitted to
\* the executor has finished.
ExitWith ==
    /\ pc = "exit"
    /\ executor.cls # "GeventPoolExecutor" => \A i \in DOMAIN futures : futures[i] # "pending"
    /\ futures' = shutdown(executor, futures)
    /\ executor' = [NoExecutor EXCEPT !.state = "shutdown",
                                      !.shutdowns = executor.shutdowns + 1]
    /\ open' = open - 1
    /\ pc' = IF raised = NoExc THEN "loop" ELSE "except"
    /\ lazy' = Outlives(lazy)
    /\ pulled' = NoPull
    /\ emitted' = <<>>
    /\ UNCHANGED <<gen, task, completed, resumed, resumes, segment, raised, result, pep479, polling>>
    /\ UNCHANGED <<signalVars, moduleVars>>

\* run() without the StopIteration handler: the exception leaves run().
ExceptStopIteration_Raise ==
    /\ pc = "except"
    /\ raised.type = "StopIteration"
    /\ result' = [how |-> "raise", v |-> raised]
    /\ pc' = "done"
    /\ UNCHANGED <<gen, task, executor, futures, completed, resumed, resumes, segment, raised, lazyVars, open, polling>>
    /\ UNCHANGED <<signalVars, moduleVars>>

\* Lines 274-275: except StopIteration: break; run() returns None.
ExceptStopIteration ==
    /\ pc = "except"
    /\ raised.type = "StopIteration"
    /\ result' = [how |-> "return", v |-> PyNone]
    /\ pc' = "done"
    /\ UNCHANGED <<gen, task, executor, futures, completed, resumed, resumes, segment, raised, lazyVars, open, polling>>
    /\ UNCHANGED <<signalVars, moduleVars>>

\* The handler returning without the payload.
ExceptReturnResult_NoResult ==
    /\ pc = "except"
    /\ raised.type = "ReturnResult"
    /\ gen' = "closed"
    /\ result' = [how |-> "return", v |-> PyNone]
    /\ pc' = "done"
    /\ UNCHANGED <<task, executor, futures, completed, resumed, resumes, segment, raised, lazyVars, open, polling>>
    /\ UNCHANGED <<signalVars, moduleVars>>

\* Lines 276-278: except ReturnResult: gen.close(); return e.result.
ExceptReturnResult ==
    /\ pc = "except"
    /\ raised.type = "ReturnResult"
    /\ gen' = "closed"
    /\ result' = [how |-> "return", v |-> ResultOf(raised)]
    /\ pc' = "done"
    /\ UNCHANGED <<task, executor, futures, completed, resumed, resumes, segment, raised, lazyVars, open, polling>>
    /\ UNCHANGED <<signalVars, moduleVars>>

\* No handler of run() matches: the exception leaves run() and the wrapper.
Propagate ==
    /\ \/ pc = "propagate"
       \/ pc = "except" /\ raised.type \notin {"StopIteration", "ReturnResult"}
    /\ result' = [how |-> "raise", v |-> raised]
    /\ pc' = "done"
    /\ UNCHANGED <<gen, task, executor, futures, completed, resumed, resumes, segment, raised, lazyVars, open, polling>>
    /\ UNCHANGED <<signalVars, moduleVars>>

Next ==
    \/ \E g \in BOOLEAN : wrapper(g)
    \/ run
    \/ GenYield
    \/ \E item \in Items : Yielded(item)
    \/ GenFinish
    \/ \E b \in BOOLEAN : GenReturnResult(b)
    \/ \E from \in {"thrown", "pulled", "own"} : GenRaise(from)
    \/ LazyCreate
    \/ LazyStart
    \/ LazyStartStale
    \/ LazyNext
    \/ LazyNextFinished
    \/ LazyWait
    \/ LazyDone
    \/ LazyFor
    \/ Normalize
    \/ Acquire
    \/ \E i \in 1..MaxGroup : Complete(i)
    \/ SubmitSingle
    \/ Poll
    \/ update_gui
    \/ SubmitMulti
    \/ Wait
    \/ ExitWith
    \/ ExceptStopIteration
    \/ ExceptReturnResult
    \/ Propagate

Spec == Init /\ [][Next]_vars

----------------------------------------------------------------------------
\* Signals: connect, disconnect, emit, and the destruction of a slot.

\* The connection entries of all the signals.
Entries == UNION {{<<s, i>> : i \in DOMAIN signals[s].slots} : s \in SignalIds}

\* callable_weakref that makes every weak reference without a callback.
callable_weakref_NoCallback(obj, del_cb) == [slot |-> obj, del_cb |-> FALSE, id |-> 0]

\* callable_weakref(obj, del_cb): a new weak reference to the callable (for
\* a bound method, to its function and its owner), with or without a
\* callback run when the callable is destroyed.  id tells the reference
\* objects apart: that of a connection entry is its place in the list, that
\* of a reference in no list is 0.
callable_weakref(obj, del_cb) == [slot |-> obj, del_cb |-> del_cb, id |-> 0]

\* callable_weakref(obj) of a bound method makes a _MethodWeakref, which
\* reads method.im_func and method.im_self: where bound methods have
\* neither, that raises AttributeError.
NoImFunc(obj) == obj = "a.slot1" /\ ~im_func

\* list.append(slot_ref): the new entry is the last.
append(slots_, slot_ref) == Append(slots_, [slot_ref EXCEPT !.id = Len(slots_) + 1])

\* The entries numbered by their places again, once an operation is over.
Renumber(slots_) == [i \in DOMAIN slots_ |-> [slots_[i] EXCEPT !.id = i]]

\* Calling a weak reference: the callable, or None when it is gone.
referent(ref, al) == IF al[ref.slot] THEN ref.slot ELSE "None"

\* Equality of two weak references (weakref.ref, _MethodWeakref.__cmp__):
\* a reference is equal to itself; those of live callables are equal when
\* the callables are; a reference to a destroyed callable is equal to no
\* other.
RefEq(r1, r2, al) ==
    \/ r1.id # 0 /\ r1.id = r2.id
    \/ al[r1.slot] /\ al[r2.slot] /\ r1.slot = r2.slot

\* The callable has no __name__ attribute: it is a callable object, not a
\* function or a bound method.
NoName(slot) == bodies[slot] = "raises_unnamed"

\* Signal.__disconnect without the stop at the first match.
disconnect_EveryEntry(slots_, slot_ref, al) ==
    [slots |-> SelectSeq(slots_, LAMBDA r : ~RefEq(r, slot_ref, al)),
     raised |-> FALSE]

\* Signal.__disconnect: self.__slots.remove(slot_ref) removes the first
\* entry equal to slot_ref.  When there is none, the handler of the
\* ValueError logs "unbound slot" for a callable that is gone, and else
\* the slot's __name__ (lines 43-44): a callable without __name__ makes it
\* raise AttributeError, which leaves __disconnect.
__disconnect(slots_, slot_ref, al) ==
    LET found == {i \in DOMAIN slots_ : RefEq(slots_[i], slot_ref, al)} IN
    IF found = {}
    THEN [slots |-> slots_, raised |-> al[slot_ref.slot] /\ NoName(slot_ref.slot)]
    ELSE [slots |-> [j \in 1..(Len(slots_) - 1) |->
                        IF j < Min(found) THEN slots_[j] ELSE slots_[j + 1]],
          raised |-> FALSE]

\* Signal.__on_slot_deleted for each of the weak references refs whose
\* callback runs, one after the other.
RECURSIVE __on_slot_deleted(_, _, _)
__on_slot_deleted(slots_, refs, al) ==
    IF refs = <<>> THEN slots_
    ELSE __on_slot_deleted(__disconnect(slots_, Head(refs), al).slots, Tail(refs), al)

\* Signal.__emit with the kwargs left out of the call.
emit_NoKwargs(slot, args, kwargs) ==
    IF slot = "None"
    THEN [calls |-> <<>>, raised |-> TRUE]
    ELSE [calls |-> <<[slot |-> slot, args |-> args, kwargs |-> <<>>]>>, raised |-> FALSE]

\* Signal.__emit: slot(*args, **kwargs).  Calling None raises TypeError; the
\* handler then reads slot.__name__, and the AttributeError of that leaves
\* __emit.
__emit(slot, args, kwargs) ==
    IF slot = "None"
    THEN [calls |-> <<>>, raised |-> TRUE]
    ELSE [calls |-> <<[slot |-> slot, args |-> args, kwargs |-> kwargs]>>, raised |-> FALSE]

\* Signal.__get__ returning the class attribute itself.
get_ReturnsSelf(obj) == "changed"

\* Signal.__get__(obj): the signal stored for this attribute in
\* obj._qarbon_signals__, made at the first access.
__get__(obj) == IF qarbon_signals[obj] = "none" THEN obj ELSE qarbon_signals[obj]

\* Lines 73-76: the first access makes the per-instance signal, with the
\* emit_on_connect of the class attribute, and stores it.
Accessed(t) ==
    IF qarbon_signals[t] = "none"
    THEN [signals EXCEPT ![t] = Signal(signals["changed"].emit_on_connect)]
    ELSE signals

Stored(t) == [qarbon_signals EXCEPT ![t] = __get__(t)]

\* Signal.slots(): the connected callables that still exist.
slots(sig) ==
    LET live == SelectSeq(sig.slots, LAMBDA r : alive[r.slot]) IN
    [i \in DOMAIN live |-> live[i].slot]

\* slot(*args, **kwargs) inside Signal.__emit (line 57), for the signal sig
\* that calls it: what the body of the callable does to the entries of sig,
\* the calls it causes (connect calls a.slot1 at once when sig has a cached
\* emit, lines 104-105), and whether an exception leaves the body (its own,
\* or the AttributeError of connect where bound methods have no im_func).
SlotBody(slot, sig) ==
    CASE bodies[slot] = "disconnects" ->
             LET d == __disconnect(sig.slots, callable_weakref(slot, FALSE), alive)
             IN [slots |-> d.slots, calls |-> <<>>, exc |-> d.raised]
      [] bodies[slot] = "connects" ->
             IF NoImFunc("a.slot1")
             THEN [slots |-> sig.slots, calls |-> <<>>, exc |-> TRUE]
             ELSE [slots |-> append(sig.slots, callable_weakref("a.slot1", TRUE)),
                   calls |-> IF sig.emit_on_connect /\ sig.cache # <<>>
                             THEN __emit("a.slot1", sig.cache[1].args,
                                         sig.cache[1].kwargs).calls
                             ELSE <<>>,
                   exc |-> FALSE]
      [] bodies[slot] \in {"raises", "raises_unnamed"} ->
             [slots |-> sig.slots, calls |-> <<>>, exc |-> TRUE]
      [] OTHER -> [slots |-> sig.slots, calls |-> <<>>, exc |-> FALSE]

\* Signal.__emit, lines 58-61: the handler of whatever the slot raised reads
\* slot.__name__ and logs the error.  A callable without __name__ makes the
\* handler raise AttributeError, which leaves __emit.
HandlerRaises(slot) == NoName(slot)

\* The entries the body of slot may add fit the model's bound.
Fits(slot) ==
    (bodies[slot] = "connects" /\ ~NoImFunc("a.slot1")) =>
        Cardinality(Entries) + 1 < MaxEntries

\* Signal.connect with the cached emit sent to every connected slot.
connect_EmitToAll(t, slot) ==
    /\ call.state # "running"
    /\ alive[slot]
    /\ Cardinality(Entries) < MaxEntries
    /\ LET sid == __get__(t)
           sig == Accessed(t)[sid]
           all == append(sig.slots, callable_weakref(slot, TRUE))
       IN IF NoImFunc(slot)
          THEN /\ signals' = Accessed(t)
               /\ calls' = <<>>
               /\ call' = [Idle EXCEPT !.op = "connect", !.target = t, !.slot = slot,
                                       !.state = "raised"]
          ELSE /\ signals' = [Accessed(t) EXCEPT ![sid].slots = all]
               /\ calls' = IF sig.emit_on_connect /\ sig.cache # <<>>
                           THEN [i \in DOMAIN all |->
                                    [slot |-> all[i].slot, args |-> sig.cache[1].args,
                                     kwargs |-> sig.cache[1].kwargs]]
                           ELSE <<>>
               /\ call' = [Idle EXCEPT !.op = "connect", !.target = t, !.slot = slot,
                                       !.state = "returned"]
    /\ qarbon_signals' = Stored(t)
    /\ UNCHANGED <<alive, im_func>>
    /\ UNCHANGED <<engineVars, moduleVars, bodies>>

\* Signal.connect(slot), lines 101-105.
connect(t, slot) ==
    /\ call.state # "running"
    /\ alive[slot]
    /\ Cardinality(Entries) < MaxEntries
    /\ LET sid == __get__(t)
           sig == Accessed(t)[sid]
       IN IF NoImFunc(slot)
          THEN /\ signals' = Accessed(t)
               /\ calls' = <<>>
               /\ call' = [Idle EXCEPT !.op = "connect", !.target = t, !.slot = slot,
                                       !.state = "raised"]
          ELSE LET all == append(sig.slots, callable_weakref(slot, TRUE))
                   cached == sig.emit_on_connect /\ sig.cache # <<>>
                   b == SlotBody(slot, [sig EXCEPT !.slots = all])
               IN /\ cached => Fits(slot)
                  /\ signals' = [Accessed(t) EXCEPT
                                    ![sid].slots = IF cached THEN Renumber(b.slots) ELSE all]
                  /\ calls' = IF cached
                              THEN __emit(slot, sig.cache[1].args,
                                          sig.cache[1].kwargs).calls \o b.calls
                              ELSE <<>>
                  /\ call' = [Idle EXCEPT !.op = "connect", !.target = t, !.slot = slot,
                                          !.state = IF cached /\ b.exc /\ HandlerRaises(slot)
                                                    THEN "raised" ELSE "returned"]
    /\ qarbon_signals' = Stored(t)
    /\ UNCHANGED <<alive, im_func>>
    /\ UNCHANGED <<engineVars, moduleVars, bodies>>

\* Signal.disconnect(slot), lines 107-109.
disconnect(t, slot) ==
    /\ call.state # "running"
    /\ alive[slot]
    /\ LET sid == __get__(t) IN
          IF NoImFunc(slot)
          THEN /\ signals' = Accessed(t)
               /\ call' = [Idle EXCEPT !.op = "disconnect", !.target = t, !.slot = slot,
                                       !.state = "raised"]
          ELSE LET d == __disconnect(Accessed(t)[sid].slots,
                                     callable_weakref(slot, FALSE), alive)
               IN /\ signals' = [Accessed(t) EXCEPT ![sid].slots = Renumber(d.slots)]
                  /\ call' = [Idle EXCEPT !.op = "disconnect", !.target = t, !.slot = slot,
                                          !.state = IF d.raised THEN "raised"
                                                    ELSE "returned"]
    /\ calls' = <<>>
    /\ qarbon_signals' = Stored(t)
    /\ UNCHANGED <<alive, im_func>>
    /\ UNCHANGED <<engineVars, moduleVars, bodies>>

\* Signal.emit(*args, **kwargs), lines 112-113: the cache is set, and the
\* loop over self.__slots starts.
emit(t, payload) ==
    /\ call.state # "running"
    /\ LET sid == __get__(t) IN
          /\ signals' = [Accessed(t) EXCEPT ![sid].cache = <<payload>>]
          /\ call' = [Idle EXCEPT !.op = "emit", !.target = t, !.sig = sid,
                                  !.payload = <<payload>>, !.i = 1, !.state = "running",
                                  !.start = [i \in DOMAIN Accessed(t)[sid].slots |->
                                                Accessed(t)[sid].slots[i].slot]]
    /\ calls' = <<>>
    /\ qarbon_signals' = Stored(t)
    /\ UNCHANGED <<alive, im_func>>
    /\ UNCHANGED <<engineVars, moduleVars, bodies>>

\* Lines 114-115: one turn of the loop, self.__emit(slot(), args, kwargs),
\* on the list as the bodies of the slots called so far have left it: the
\* loop goes by the index in self.__slots.
EmitNext ==
    /\ call.state = "running"
    /\ call.i <= Len(signals[call.sig].slots)
    /\ LET sig == signals[call.sig]
           slot == referent(sig.slots[call.i], alive)
           r == __emit(slot, call.payload[1].args, call.payload[1].kwargs)
           b == IF slot = "None" THEN [slots |-> sig.slots, calls |-> <<>>, exc |-> FALSE]
                ELSE SlotBody(slot, sig)
       IN /\ slot # "None" => Fits(slot)
          /\ signals' = [signals EXCEPT ![call.sig].slots = Renumber(b.slots)]
          /\ calls' = calls \o r.calls \o b.calls
          /\ IF r.raised \/ (b.exc /\ HandlerRaises(slot))
             THEN call' = [call EXCEPT !.i = 0, !.state = "raised"]
             ELSE call' = [call EXCEPT !.i = @ + 1]
    /\ UNCHANGED <<qarbon_signals, alive, im_func>>
    /\ UNCHANGED <<engineVars, moduleVars, bodies>>

\* The loop is over: emit returns.
EmitReturn ==
    /\ call.state = "running"
    /\ call.i > Len(signals[call.sig].slots)
    /\ call' = [call EXCEPT !.i = 0, !.state = "returned"]
    /\ UNCHANGED <<signals, qarbon_signals, alive, im_func, calls>>
    /\ UNCHANGED <<engineVars, moduleVars, bodies>>

\* The last strong reference to a function, or to the owner of a bound
\* method, goes (del temp_func, del a): the callback of each weak reference
\* made by connect runs Signal.__on_slot_deleted on the signal it was
\* connected to.  i counts the entries these callbacks remove.  (The
\* callback of a reference that disconnect has removed already, and that a
\* reference cycle has kept until the collector runs, finds no entry: it
\* changes nothing.)
Destroy(slot) ==
    /\ call.state # "running"
    /\ alive[slot]
    /\ alive' = [alive EXCEPT ![slot] = FALSE]
    /\ LET refs(s) == SelectSeq(signals[s].slots, LAMBDA r : r.slot = slot /\ r.del_cb) IN
          /\ signals' = [s \in SignalIds |->
                            [signals[s] EXCEPT
                                !.slots = Renumber(__on_slot_deleted(@, refs(s), alive'))]]
          /\ call' = [Idle EXCEPT !.op = "del", !.slot = slot, !.state = "returned",
                                  !.i = Cardinality({e \in Entries :
                                             /\ signals[e[1]].slots[e[2]].slot = slot
                                             /\ signals[e[1]].slots[e[2]].del_cb})]
    /\ calls' = <<>>
    /\ UNCHANGED <<qarbon_signals, im_func>>
    /\ UNCHANGED <<engineVars, moduleVars, bodies>>

\* Signal.__get__, lines 65-77, for an access of the attribute that calls
\* nothing on the signal (obj.changed): the first access makes and stores
\* the signal of the object.
Access(t) ==
    /\ call.state # "running"
    /\ signals' = Accessed(t)
    /\ qarbon_signals' = Stored(t)
    /\ call' = [Idle EXCEPT !.op = "get", !.target = t, !.state = "returned"]
    /\ calls' = <<>>
    /\ UNCHANGED <<alive, im_func>>
    /\ UNCHANGED <<engineVars, moduleVars, bodies>>

\* Signal.__delete__, lines 82-88 (del obj.changed): the signal of the
\* object is taken out of obj._qarbon_signals__, with its entries and its
\* cache; the next access makes a new one.  Without a signal of the object
\* the KeyError or AttributeError is passed over.
__delete__(t) ==
    /\ call.state # "running"
    /\ qarbon_signals' = [qarbon_signals EXCEPT ![t] = "none"]
    /\ signals' = [signals EXCEPT ![t] = Signal(signals["changed"].emit_on_connect)]
    /\ call' = [Idle EXCEPT !.op = "delete", !.target = t, !.state = "returned"]
    /\ calls' = <<>>
    /\ UNCHANGED <<alive, im_func>>
    /\ UNCHANGED <<engineVars, moduleVars, bodies>>

\* The Engine is not used; the signals are created with either value of
\* emit_on_connect, under either kind of interpreter.
InitSignal ==
    /\ pc = "call" /\ gen = "none" /\ task = NoTask /\ executor = NoExecutor
    /\ futures = <<>> /\ completed = <<>> /\ resumed = NoResume /\ segment = "none"
    /\ raised = NoExc /\ result = [how |-> "none", v |-> PyNone]
    /\ lazy = NoLazy /\ pulled = NoPull /\ emitted = <<>> /\ pep479 = FALSE
    /\ open = 0 /\ polling = NoPolling /\ resumes = 0
    /\ \E e \in BOOLEAN, py2 \in BOOLEAN : SignalsInit(e, py2)
    /\ ModuleInit("thread", 1)

NextSignal ==
    \/ \E t \in Objects, slot \in Slots : connect(t, slot)
    \/ \E t \in Objects, slot \in Slots : disconnect(t, slot)
    \/ \E t \in Objects, payload \in Payloads : emit(t, payload)
    \/ EmitNext
    \/ EmitReturn
    \/ \E slot \in Slots : Destroy(slot)
    \/ \E t \in Objects : Access(t)
    \/ \E t \in Objects : __delete__(t)

SpecSignal == InitSignal /\ [][NextSignal]_vars

\* The same signals with a temp_func whose body does one of the things of
\* Bodies; a.slot1 returns.  No callable is destroyed.
InitSlots ==
    /\ pc = "call" /\ gen = "none" /\ task = NoTask /\ executor = NoExecutor
    /\ futures = <<>> /\ completed = <<>> /\ resumed = NoResume /\ segment = "none"
    /\ raised = NoExc /\ result = [how |-> "none", v |-> PyNone]
    /\ lazy = NoLazy /\ pulled = NoPull /\ emitted = <<>> /\ pep479 = FALSE
    /\ open = 0 /\ polling = NoPolling /\ resumes = 0
    /\ signals \in {[s \in SignalIds |-> Signal(e)] : e \in BOOLEAN}
    /\ qarbon_signals = [o \in Objects |-> "none"]
    /\ alive = [s \in Slots |-> TRUE]
    /\ im_func \in BOOLEAN
    /\ call = Idle
    /\ calls = <<>>
    /\ bodies \in {[s \in Slots |-> IF s = "temp_func" THEN b ELSE "returns"] : b \in Bodies}
    /\ ModuleInit("thread", 1)

NextSlots ==
    \/ \E t \in Objects, slot \in Slots : connect(t, slot)
    \/ \E t \in Objects, slot \in Slots : disconnect(t, slot)
    \/ \E t \in Objects, payload \in Payloads : emit(t, payload)
    \/ EmitNext
    \/ EmitReturn
    \/ \E t \in Objects : Access(t)
    \/ \E t \in Objects : __delete__(t)

SpecSlots == InitSlots /\ [][NextSlots]_vars

----------------------------------------------------------------------------
\* The executor module (src/qarbon/executor.py).

\* The callables handed to submit and map: one returns, one raises an
\* Exception, one raises a BaseException that is no Exception.
Fns == {"returns", "raises", "exits"}

\* What the call of fn raises.
Raised(fn) ==
    CASE fn = "raises" -> "ValueError"
      [] fn = "exits" -> "SystemExit"
      [] OTHER -> ""

\* config.EXECUTOR: the classes of __EXECUTOR_MAP that can be built where
\* gevent is not installed and whose submit() hands the call over.
Kinds == {"thread", "serial"}

\* SerialExecutor.submit with `except Exception` for its handler: what is
\* no Exception leaves submit.
SerialExecutor_submit_ExceptException(fn) ==
    IF fn = "returns" THEN [how |-> "return", future |-> "value", exc |-> ""]
    ELSE IF fn = "raises" THEN [how |-> "return", future |-> "error", exc |-> Raised(fn)]
    ELSE [how |-> "raise", future |-> "none", exc |-> Raised(fn)]

\* SerialExecutor.submit, lines 25-34: fn is called at once; the future is
\* returned with its result or with whatever fn raised.
SerialExecutor_submit(fn) ==
    IF fn = "returns" THEN [how |-> "return", future |-> "value", exc |-> ""]
    ELSE [how |-> "return", future |-> "error", exc |-> Raised(fn)]

\* A worker of a thread pool runs a call of fn: the future gets fn's value,
\* or whatever fn raised.
WorkItem_run(fn) ==
    [future |-> IF fn = "returns" THEN "value" ELSE "error", exc |-> Raised(fn)]

\* The call of thread t ends.
Returns(t, r) ==
    /\ ret' = r
    /\ threads' = [threads EXCEPT ![t] = NoCall]

\* Executor(), line 88, as the first step of Executor(), submit(fn) or
\* map(fn, iterable) with an iterable of n elements: if __EXECUTOR is None.
Executor_IsNone(t, op, fn, n) ==
    /\ threads[t].pc = "idle"
    /\ __EXECUTOR = 0 =>
           Len(instances) + Cardinality({u \in DOMAIN threads : threads[u].pc = "create"})
               < MaxInstances
    /\ threads' = [threads EXCEPT ![t] = [op |-> op, fn |-> fn, n |-> n, e |-> 0,
                       pc |-> IF __EXECUTOR = 0 THEN "create" ELSE "return"]]
    /\ UNCHANGED <<__EXECUTOR, instances, ret, config>>
    /\ UNCHANGED <<engineVars, signalVars>>

\* Executor() with the instance it has just made left out of the global.
Executor_Create_NotStored(t) ==
    /\ threads[t].pc = "create"
    /\ instances' = Append(instances, [cls |-> config.EXECUTOR,
                                       shutdown |-> FALSE, late |-> FALSE])
    /\ threads' = [threads EXCEPT ![t].pc = "return"]
    /\ UNCHANGED <<__EXECUTOR, ret, config>>
    /\ UNCHANGED <<engineVars, signalVars>>

\* Executor(), lines 89-91: the class of config.EXECUTOR is instantiated
\* and the instance stored in the global.
Executor_Create(t) ==
    /\ threads[t].pc = "create"
    /\ instances' = Append(instances, [cls |-> config.EXECUTOR,
                                       shutdown |-> FALSE, late |-> FALSE])
    /\ __EXECUTOR' = Len(instances) + 1
    /\ threads' = [threads EXCEPT ![t].pc = "return"]
    /\ UNCHANGED <<ret, config>>
    /\ UNCHANGED <<engineVars, signalVars>>

\* Executor(), line 92: return __EXECUTOR, the global as it is now.
Executor_Return(t) ==
    /\ threads[t].pc = "return"
    /\ IF threads[t].op = "Executor"
       THEN Returns(t, [NoRet EXCEPT !.op = "Executor", !.how = "return",
                                     !.inst = __EXECUTOR])
       ELSE /\ threads' = [threads EXCEPT ![t].pc = "call", ![t].e = __EXECUTOR]
            /\ UNCHANGED ret
    /\ UNCHANGED <<__EXECUTOR, instances, config>>
    /\ UNCHANGED <<engineVars, signalVars>>

\* submit, line 96, and map, line 106: the method is called on what
\* Executor() returned.  None has no such method.  map() submits one call
\* for each element of its iterable, as submit() does for its one call, and
\* returns an iterator: with an empty iterable nothing is submitted.  A
\* thread pool that was shut down raises RuntimeError at the first call
\* submitted; otherwise it queues the call and starts a worker, which may
\* have run fn or not when the method returns: the future is pending or
\* done.  A SerialExecutor, whose shutdown() is the inherited no-op, calls
\* fn.
Call(t) ==
    /\ threads[t].pc = "call"
    /\ LET e == threads[t].e
           op == threads[t].op
           serial == SerialExecutor_submit(threads[t].fn)
           done == WorkItem_run(threads[t].fn)
       IN  IF e = 0
           THEN /\ Returns(t, [NoRet EXCEPT !.op = op, !.how = "raise",
                                            !.exc = "AttributeError"])
                /\ UNCHANGED instances
           ELSE IF threads[t].n = 0
           THEN /\ Returns(t, [NoRet EXCEPT !.op = op, !.how = "return", !.inst = e])
                /\ UNCHANGED instances
           ELSE IF instances[e].cls = "thread"
           THEN IF instances[e].shutdown
                THEN /\ Returns(t, [NoRet EXCEPT !.op = op, !.how = "raise", !.inst = e,
                                                 !.exc = "RuntimeError"])
                     /\ UNCHANGED instances
                ELSE /\ \/ Returns(t, [NoRet EXCEPT !.op = op, !.how = "return", !.inst = e,
                                                    !.future = "pending"])
                        \/ Returns(t, [op |-> op, how |-> "return", inst |-> e,
                                       future |-> done.future, exc |-> done.exc])
                     /\ UNCHANGED instances
           ELSE /\ Returns(t, [op |-> op, how |-> serial.how, inst |-> e,
                               future |-> serial.future, exc |-> serial.exc])
                /\ instances' = [instances EXCEPT ![e].late = @ \/ instances[e].shutdown]
    /\ UNCHANGED <<__EXECUTOR, config>>
    /\ UNCHANGED <<engineVars, signalVars>>

\* shutdown(), lines 111-112: if __EXECUTOR is None: return.
shutdown_IsNone(t) ==
    /\ threads[t].pc = "idle"
    /\ IF __EXECUTOR = 0
       THEN Returns(t, [NoRet EXCEPT !.op = "shutdown", !.how = "return"])
       ELSE /\ threads' = [threads EXCEPT ![t] = [NoCall EXCEPT !.op = "shutdown",
                                                                !.pc = "sd_call"]]
            /\ UNCHANGED ret
    /\ UNCHANGED <<__EXECUTOR, instances, config>>
    /\ UNCHANGED <<engineVars, signalVars>>

\* shutdown(), line 113: result = __EXECUTOR.shutdown(wait=wait).  The
\* global is read, as it is now, and the method looked up on it.
shutdown_Call(t) ==
    /\ threads[t].pc = "sd_call"
    /\ IF __EXECUTOR = 0
       THEN Returns(t, [NoRet EXCEPT !.op = "shutdown", !.how = "raise",
                                     !.exc = "AttributeError"])
       ELSE /\ threads' = [threads EXCEPT ![t].pc = "sd_body", ![t].e = __EXECUTOR]
            /\ UNCHANGED ret
    /\ UNCHANGED <<__EXECUTOR, instances, config>>
    /\ UNCHANGED <<engineVars, signalVars>>

\* The rest of line 113: the shutdown(wait) of the instance that was read
\* runs, whatever the global holds by now.
shutdown_Body(t) ==
    /\ threads[t].pc = "sd_body"
    /\ instances' = [instances EXCEPT ![threads[t].e].shutdown = TRUE]
    /\ threads' = [threads EXCEPT ![t].pc = "sd_clear"]
    /\ UNCHANGED <<__EXECUTOR, ret, config>>
    /\ UNCHANGED <<engineVars, signalVars>>

\* shutdown(), lines 114-115: __EXECUTOR = None; return result.
shutdown_Clear(t) ==
    /\ threads[t].pc = "sd_clear"
    /\ __EXECUTOR' = 0
    /\ Returns(t, [NoRet EXCEPT !.op = "shutdown", !.how = "return",
                                !.inst = threads[t].e])
    /\ UNCHANGED <<instances, config>>
    /\ UNCHANGED <<engineVars, signalVars>>

\* The module as imported in a process that makes no use of the Engine and
\* of the signals, called by n threads.
InitExecutor(n) ==
    /\ pc = "call" /\ gen = "none" /\ task = NoTask /\ executor = NoExecutor
    /\ futures = <<>> /\ completed = <<>> /\ resumed = NoResume /\ segment = "none"
    /\ raised = NoExc /\ result = [how |-> "none", v |-> PyNone]
    /\ lazy = NoLazy /\ pulled = NoPull /\ emitted = <<>> /\ pep479 = FALSE
    /\ open = 0 /\ polling = NoPolling /\ resumes = 0
    /\ SignalsInit(TRUE, TRUE)
    /\ \E kind \in Kinds : ModuleInit(kind, n)

NextExecutor ==
    \/ \E t \in DOMAIN threads, op \in {"Executor", "submit", "map"}, fn \in Fns,
          n \in {0, 1} :
           /\ op = "Executor" => (fn = "returns" /\ n = 0)
           /\ op = "submit" => n = 1
           /\ (op = "map" /\ n = 0) => fn = "returns"
           /\ Executor_IsNone(t, op, fn, n)
    \/ \E t \in DOMAIN threads : Executor_Create(t)
    \/ \E t \in DOMAIN threads : Executor_Return(t)
    \/ \E t \in DOMAIN threads : Call(t)
    \/ \E t \in DOMAIN threads : shutdown_IsNone(t)
    \/ \E t \in DOMAIN threads : shutdown_Call(t)
    \/ \E t \in DOMAIN threads : shutdown_Body(t)
    \/ \E t \in DOMAIN threads : shutdown_Clear(t)

\* The functions of the module called one at a time, from one thread.
SpecExecutor == InitExecutor(1) /\ [][NextExecutor]_vars

\* The same functions called from MaxThreads threads.
SpecThreads == InitExecutor(MaxThreads) /\ [][NextExecutor]_vars

----------------------------------------------------------------------------
\* Properties.

IsSingle(item) == item.cls \in Classes

IsOrdered(item) == IsMultiTask(item) /\ ~item.unordered

Fails(t) == t.func # "square"

\* The squares of the arguments of the members of ts that call square, in
\* the order of ts.
SquaresOf(ts) ==
    LET ok == SelectSeq(ts, LAMBDA t : ~Fails(t))
    IN [i \in 1..Len(ok) |-> ok[i].arg * ok[i].arg]

\* The exception each raising callable raises.
Raises(t) ==
    CASE t.func = "fail" -> "ValueError"
      [] t.func = "raise_timeout" -> "TimeoutError"
      [] t.func = "raise_stop" -> "StopIteration"
      [] t.func = "raise_return" -> "ReturnResult"
      [] OTHER -> ""

\* C1: a single Task(square, a) resumes the generator by send(a*a), and a
\* generator that then calls return_result with the value it received makes
\* the wrapped call return a*a.
C1_SingleTaskResult ==
    (IsSingle(task) /\ ~Fails(task.tasks[1])) =>
        LET a == task.tasks[1].arg IN
        /\ resumed.how # "none" => resumed = [how |-> "send", v |-> PyInt(a * a)]
        /\ (pc = "done" /\ segment = "return_received") =>
               result = [how |-> "return", v |-> PyInt(a * a)]

C1_Witness ==
    /\ pc = "done"
    /\ segment = "return_received"
    /\ task = Single(Task("Task", "square", 3))
    /\ result = [how |-> "return", v |-> PyInt(9)]

\* C2: an ordered group whose members all succeed resumes the generator by
\* send of the list holding, at index i, the result of member i, whatever
\* the order in which the members completed.
C2_OrderedResultsMirrorInput ==
    (IsOrdered(task) /\ resumed.how # "none"
        /\ \A i \in DOMAIN task.tasks : ~Fails(task.tasks[i])) =>
        /\ resumed.how = "send"
        /\ resumed.v.kind = "list"
        /\ Len(resumed.v.val) = Len(task.tasks)
        /\ \A i \in DOMAIN task.tasks :
               resumed.v.val[i] = task.tasks[i].arg * task.tasks[i].arg

C2_Witness ==
    /\ IsOrdered(task)
    /\ Len(task.tasks) = 2
    /\ completed = <<2, 1>>
    /\ resumed = [how |-> "send", v |-> PyList(<<1, 4>>)]

\* C3: an ordered group with skip_errors=True resumes the generator by send
\* of the list of the results of the members that succeeded, in input
\* order; nothing is thrown, whichever members fail.
C3_SkipErrorsOmitsFailures ==
    (IsOrdered(task) /\ task.skip_errors /\ resumed.how # "none") =>
        resumed = [how |-> "send", v |-> PyList(SquaresOf(task.tasks))]

C3_Witness ==
    /\ IsOrdered(task)
    /\ task.skip_errors
    /\ Len(task.tasks) = 2
    /\ Fails(task.tasks[1])
    /\ ~Fails(task.tasks[2])
    /\ resumed = [how |-> "send", v |-> PyList(<<4>>)]

\* C4: an ordered group with skip_errors=False and a failing member resumes
\* the generator by throw of the exception of one of its failing members,
\* never by send.
C4_GroupFailureIsThrown ==
    (IsOrdered(task) /\ ~task.skip_errors /\ resumed.how # "none"
        /\ \E i \in DOMAIN task.tasks : Fails(task.tasks[i])) =>
        /\ resumed.how = "throw"
        /\ \E i \in DOMAIN task.tasks :
               /\ Fails(task.tasks[i])
               /\ resumed.v.kind = "exc"
               /\ resumed.v.type = Raises(task.tasks[i])
               /\ resumed.v.val = <<task.tasks[i].arg>>

C4_Witness ==
    /\ IsOrdered(task)
    /\ ~task.skip_errors
    /\ Len(task.tasks) = 2
    /\ ~Fails(task.tasks[1])
    /\ task.tasks[2].func = "fail"
    /\ resumed = [how |-> "throw", v |-> Exc("ValueError", 2)]

\* C5: when the future of a single Task is done with an exception of any
\* type, the poll throws that exception into the generator; it is not
\* handled as a poll timeout.
C5_FailureIsThrown ==
    [][(pc = "poll" /\ futures = <<"done">> /\ Fails(task.tasks[1])) =>
           (pc' = "gen" /\ resumed'.how = "throw"
               /\ resumed'.v.type = Raises(task.tasks[1]))]_vars

\* C6: a failure thrown into the generator and not caught there leaves the
\* wrapped call as that exception.  (ReturnResult is the return signal, not
\* a failure.)
C6_UncaughtFailurePropagates ==
    (pc = "done" /\ segment = "uncaught" /\ resumed.how = "throw"
        /\ resumed.v.type # "ReturnResult") =>
        result = [how |-> "raise", v |-> resumed.v]

\* C7: whenever the generator's code raises return_result(v) and does not
\* catch it, the Runner closes the generator and the wrapped call returns v.
C7_ReturnResultReturns ==
    (pc = "done" /\ segment \in {"return_result", "return_received"}) =>
        /\ result = [how |-> "return", v |-> ResultOf(raised)]
        /\ gen = "closed"

\* C8: a generator that finishes without yielding anything makes run()
\* return None, with no exception and no executor.
C8_ExhaustedAtStartReturnsNone ==
    (pc = "done" /\ segment = "finish" /\ resumed.how = "next") =>
        /\ result = [how |-> "return", v |-> PyNone]
        /\ executor.state = "none"

\* C9: a generator that, resumed for a dispatched item, finishes without
\* yielding again makes run() and the wrapped call return None.
C9_ExhaustedAfterResumeReturnsNone ==
    (pc = "done" /\ segment = "finish" /\ resumed.how \in {"send", "throw"}) =>
        result = [how |-> "return", v |-> PyNone]

C9_Witness ==
    /\ pc = "done"
    /\ segment = "finish"
    /\ resumed.how = "send"
    /\ result = [how |-> "return", v |-> PyNone]

\* C10: an executor is open only inside its with block, has received no
\* shutdown() while open and exactly one once the block is left, on every
\* way out of the block; no run ends with an executor open.
C10_ExecutorShutDownOnce ==
    /\ executor.state = "open" =>
           /\ pc \notin {"call", "run", "loop", "normalize", "with", "except",
                         "propagate", "done"}
           /\ executor.shutdowns = 0
    /\ executor.state = "shutdown" => executor.shutdowns = 1
    /\ pc \in {"loop", "except", "done"} => executor.state # "open"

C10_Witness ==
    /\ pc = "done"
    /\ result.how = "raise"
    /\ segment = "uncaught"
    /\ executor.state = "shutdown"
    /\ executor.shutdowns = 1

\* C11: at most one executor created by the Runner is open at a time; none
\* is open while the Runner holds a yielded item it has not dispatched yet
\* (before Normalize and before Acquire); and while work is submitted or
\* polled, the open executor is the one acquired for the item under
\* dispatch, of its class and size.
C11_OneExecutorOpen ==
    /\ open <= 1
    /\ (open = 1) <=> (executor.state = "open")
    /\ pc \in {"loop", "normalize", "with"} => open = 0
    /\ pc \in {"single", "multi", "poll", "gui", "wait",
                "lz_wait", "lz_gui", "lz_done", "lz_for"} =>
           /\ executor.state = "open"
           /\ executor.cls = executor_class(task.cls)
           /\ executor.max_workers = task.max_workers

C11_Witness ==
    /\ pc = "with"
    /\ segment = "yield"
    /\ executor.state = "shutdown"
    /\ executor.shutdowns = 1
    /\ open = 0

\* C12: every pending future belongs to the item dispatched last (none was
\* submitted for the group of an earlier step), and when the Runner holds
\* or dispatches a new item no future is pending.
C12_PendingBelongToCurrentStep ==
    /\ \A i \in DOMAIN futures : futures[i] # "late"
    /\ pc \in {"loop", "normalize", "with", "single", "multi"} =>
           \A i \in DOMAIN futures : futures[i] \notin Pending

\* C13: in the loops of _execute_single_task and _execute_multi_task, a
\* poll that finds work pending resumes nothing and leads to update_gui();
\* update_gui() is called once and leads back to the poll, so that the
\* calls of update_gui() are as many as the timeouts; and a generator resumed
\* after a timeout is resumed after at least one update_gui().
C13_TimeoutThenUpdateGui ==
    [][/\ pc \in {"poll", "wait"} => polling.guis = polling.timeouts
       /\ pc = "gui" => polling.timeouts = polling.guis + 1
       /\ (pc \in {"poll", "wait"} /\ pc' # pc
              /\ \E i \in DOMAIN futures : futures[i] = "pending") =>
              /\ pc' = "gui"
              /\ polling'.timeouts = polling.timeouts + 1
              /\ UNCHANGED <<gen, resumed, resumes>>
       /\ (pc = "gui" /\ pc' # pc) =>
              /\ pc' = IF IsMultiTask(task) THEN "wait" ELSE "poll"
              /\ polling'.guis = polling.guis + 1
              /\ UNCHANGED <<gen, resumed, resumes, futures>>
       /\ (pc \in {"poll", "wait"} /\ pc' = "gen" /\ polling.timeouts > 0) =>
              polling.guis >= 1]_vars

C13_Witness ==
    /\ pc = "wait"
    /\ Len(futures) = 2
    /\ wait(DOMAIN futures)
    /\ polling = [timeouts |-> 2, guis |-> 2]

\* C14: the step the Runner takes for an unordered group resumes the
\* generator by send of the lazy sequence object, with no poll made and no
\* member's future done (none exists yet); the Runner never polls or waits
\* for an unordered group, and never resumes the generator with a list.
C14_UnorderedResumesAtOnce ==
    [][/\ (pc = "multi" /\ task.unordered /\ pc' # pc) =>
              /\ pc' = "gen"
              /\ gen' = "running"
              /\ resumed' = [how |-> "send", v |-> ResultsGen]
              /\ \A i \in DOMAIN futures' : futures'[i] # "done"
              /\ polling' = NoPolling
       /\ (IsMultiTask(task) /\ task.unordered) =>
              /\ pc \notin {"poll", "gui", "wait"}
              /\ resumed.how # "none" => resumed = [how |-> "send", v |-> ResultsGen]]_vars

C14_Witness ==
    /\ pc = "gen"
    /\ IsMultiTask(task)
    /\ task.unordered
    /\ Len(task.tasks) = 2
    /\ resumed = [how |-> "send", v |-> ResultsGen]
    /\ lazy.state = "created"
    /\ futures = <<>>

\* C15: the lazy sequence of an unordered group never yields the result of
\* a member twice, yields only results of members that succeeded, each as
\* the value of that member; and when the generator's code has consumed it
\* to its end within the step, and no failure could propagate (skip_errors,
\* or no member fails), every member that succeeded has been yielded.
C15_EveryResultOnce ==
    LET ts == lazy.task.tasks
        ok == {i \in DOMAIN ts : ~Fails(ts[i])}
    IN /\ \A k, l \in DOMAIN emitted : emitted[k] = emitted[l] => k = l
       /\ \A k \in DOMAIN emitted : emitted[k] \in ok
       /\ pulled.how = "value" =>
              /\ emitted # <<>>
              /\ pulled.v = PyInt(ts[emitted[Len(emitted)]].arg * ts[emitted[Len(emitted)]].arg)
       /\ (/\ lazy.state = "finished"
           /\ pulled.how = "stop"
           /\ lazy.task = task
           /\ lazy.task.skip_errors \/ ok = DOMAIN ts) =>
              {emitted[k] : k \in DOMAIN emitted} = ok

C15_Witness ==
    /\ lazy.state = "finished"
    /\ pulled.how = "stop"
    /\ lazy.task = task
    /\ task.skip_errors
    /\ Len(task.tasks) = 2
    /\ Fails(task.tasks[1])
    /\ emitted = <<2>>

\* C16: the lazy sequence of an unordered group yields the results in the
\* order in which the members' futures completed: a result yielded before
\* another is that of a future that completed before the other's.
C16_EmittedInCompletionOrder ==
    \A k, l \in DOMAIN emitted :
        k < l => \E m, n \in DOMAIN completed :
                    /\ completed[m] = emitted[k]
                    /\ completed[n] = emitted[l]
                    /\ m < n

\* C17: with skip_errors=False, when the for loop of the lazy sequence
\* comes to a member that failed, the next() of the generator's code raises
\* that member's exception (the Runner throws nothing: the generator is
\* not resumed); with skip_errors=True the loop raises nothing and goes on.
C17_FailureLeavesTheIteration ==
    [][/\ (pc = "lz_for" /\ pc' = "gen" /\ lazy'.state = "finished") =>
              /\ ~lazy.task.skip_errors
              /\ \E f \in lazy.todo :
                     /\ Fails(lazy.task.tasks[f])
                     /\ pulled' = [how |-> "raise", v |-> start(lazy.task.tasks[f])]
              /\ UNCHANGED <<gen, resumed, resumes>>
       /\ (pc = "lz_for" /\ lazy.task.skip_errors /\ pc' = "gen") =>
              pulled'.how = "value"]_vars

\* C18: a yielded bare list or tuple that is not empty becomes, before the
\* executor is acquired, an ordered group of the same Tasks with
\* skip_errors=False, of the family of its first element alone; and a group
\* is executed on the executor of its own class, whatever the classes of
\* its members.
C18_BareListFamilyOfFirst ==
    [][/\ (pc = "normalize" /\ task.cls = "list" /\ task.tasks # <<>> /\ pc' # pc) =>
              /\ pc' = "with"
              /\ executor'.state # "open"
              /\ task'.cls = CASE task.tasks[1].cls = "ProcessTask" -> "MultiProcessTask"
                               [] task.tasks[1].cls = "GTask" -> "MultiGTask"
                               [] task.tasks[1].cls = "Task" -> "MultiTask"
              /\ task'.tasks = task.tasks
              /\ ~task'.skip_errors
              /\ ~task'.unordered
       /\ (pc = "with" /\ IsMultiTask(task) /\ task.tasks # <<>> /\ pc' # pc) =>
              /\ executor'.state = "open"
              /\ executor'.cls = executor_class(task.cls)
              /\ pc' = "multi"
       /\ (pc = "multi" /\ ~task.unordered /\ pc' # pc) =>
              /\ pc' = "wait"
              /\ Len(futures') = Len(task.tasks)]_vars

C18_Witness ==
    /\ pc = "wait"
    /\ task.cls = "MultiProcessTask"
    /\ Len(task.tasks) = 2
    /\ task.tasks[1].cls = "ProcessTask"
    /\ task.tasks[2].cls = "GTask"
    /\ executor.state = "open"
    /\ executor.cls = "ProcessPoolExecutor"

\* C19: no group without members is dispatched: while the Runner's item is
\* an empty group no executor is open and the generator has not been
\* resumed for it, and the run then ends with an exception.
C19_EmptyGroupsRejected ==
    (task # NoTask /\ task.tasks = <<>>) =>
        /\ executor.state # "open"
        /\ resumed.how = "none"
        /\ pc = "done" => result.how = "raise"

\* C20: while the Runner polls for an item, and while the lazy sequence of
\* an unordered group runs, the step has one future for each Task of the
\* item, however many polls have timed out; and no step ends (its executor
\* about to be shut down) with the members of its group not submitted.
C20_SubmittedExactlyOnce ==
    /\ pc \in {"poll", "gui", "wait"} => Len(futures) = Len(task.tasks)
    /\ pc \in {"lz_wait", "lz_gui", "lz_done", "lz_for"} =>
           Len(futures) = Len(lazy.task.tasks)
    /\ pc = "exit" => lazy.state # "created"

\* C21, as stated: every item the generator yields is followed by exactly
\* one resume of the generator: a run that has ended while the Runner held
\* an item has resumed the generator for it once.
C21_EveryItemResumedOnce ==
    (pc = "done" /\ task # NoTask) => resumes = 1

\* C21, amended: the Runner resumes the generator at most once for an item,
\* by one send or one throw, and only while the generator is suspended at
\* the yield that gave the item (no earlier resume is still running); when
\* the generator gives control back inside a step, the step has resumed it
\* exactly once.
C21_ResumedAtMostOncePerItem ==
    [][/\ resumes' <= 1
       /\ resumes' > resumes =>
              /\ resumes = 0
              /\ gen = "suspended" /\ gen' = "running"
              /\ resumed.how = "none" /\ resumed'.how \in {"send", "throw"}
              /\ pc \in {"poll", "wait", "multi"} /\ pc' = "gen"
              /\ task # NoTask
       /\ (pc = "gen" /\ pc' = "exit") => resumes = 1]_vars

C21_Witness ==
    /\ pc = "exit"
    /\ resumes = 1
    /\ resumed.how = "throw"
    /\ gen = "finished"
    /\ task = Single(Task("Task", "fail", 1))

\* C22: a run that ends after the Runner threw a Task's ReturnResult(v)
\* into the generator, and the generator did not catch it, returns v: for a
\* single Task(raise_return, a) the wrapped call returns a, and the
\* generator is closed.
C22_TaskReturnResultReturns ==
    (/\ pc = "done"
     /\ segment = "uncaught"
     /\ resumed.how = "throw"
     /\ resumed.v.type = "ReturnResult") =>
        /\ result = [how |-> "return", v |-> ResultOf(resumed.v)]
        /\ gen = "closed"
        /\ IsSingle(task) => result.v = PyInt(task.tasks[1].arg)

C22_Witness ==
    /\ pc = "done"
    /\ task = Single(Task("Task", "raise_return", 1))
    /\ segment = "uncaught"
    /\ resumed.how = "throw"
    /\ result = [how |-> "return", v |-> PyInt(1)]

\* C23: when ReturnResult leaves the generator while members of the
\* current group are pending, the Runner goes on to return the payload
\* without waiting for them and without cancelling them: leaving the with
\* block is possible at once and leaves every future as it is.
C23_ReturnResultLeavesPendingAlone ==
    (/\ pc = "exit"
     /\ raised.type = "ReturnResult"
     /\ \E i \in DOMAIN futures : futures[i] = "pending") =>
        ENABLED (ExitWith /\ futures' = futures)

\* C24: the Runner never waits without bound for a pending future: where
\* it releases the executor at the end of a step it can proceed whatever
\* the state of the step's futures, and where a poll has timed out it can
\* call update_gui().
C24_NoUnboundedWait ==
    /\ pc = "exit" => ENABLED ExitWith
    /\ pc \in {"gui", "lz_gui"} => ENABLED update_gui

\* The number of connection entries of the callable slot in a list.
Count(slots_, slot) == Cardinality({i \in DOMAIN slots_ : slots_[i].slot = slot})

\* The call slot(*args, **kwargs) of an emit with the given payload.
CallOf(slot, payload) == [slot |-> slot, args |-> payload.args, kwargs |-> payload.kwargs]

\* C25: an emit on an object's signal never fails; while it runs it has
\* called the entries before its place in the list, and when it has
\* returned it has called the callable of every connection entry of the
\* signal, in the order of the entries, once for each entry, each time with
\* exactly the args and kwargs emitted (no entry: no call).
C25_EmitCallsEveryEntry ==
    call.op = "emit" =>
        LET entries == signals[call.target].slots
            made == IF call.state = "running" THEN call.i - 1 ELSE Len(entries)
        IN /\ call.state \in {"running", "returned"}
           /\ calls = [i \in 1..made |-> CallOf(entries[i].slot, call.payload[1])]

C25_Witness ==
    /\ call.op = "emit"
    /\ call.state = "returned"
    /\ call.payload = <<Payload(1)>>
    /\ Len(calls) = 3
    /\ calls[1] = calls[2]
    /\ calls[3].slot # calls[1].slot

\* C26: a connect that returns calls, when the signal was made with
\* emit_on_connect=True and has a cached emit, the callable just connected
\* and nothing else, once, with the cached args and kwargs, and calls
\* nothing when the signal has never emitted; and the cache of a signal is
\* what its most recent emit was called with: only emit changes it.  (The
\* signal an object gets after del obj.attr is a new one, which has never
\* emitted.)
C26_EmitOnConnect ==
    [][/\ (call'.op = "connect" /\ call'.state = "returned") =>
              LET sig == signals[call'.target] IN
              sig.emit_on_connect =>
                  calls' = IF sig.cache = <<>> THEN <<>>
                           ELSE <<CallOf(call'.slot, sig.cache[1])>>
       /\ \A s \in SignalIds :
              signals'[s].cache # signals[s].cache =>
                  /\ \/ call'.op = "emit" /\ call'.state = "running" /\ call'.i = 1
                     \/ call'.op = "delete" /\ signals'[s].cache = <<>>
                  /\ s = call'.target
       /\ (call'.op = "emit" /\ call'.state = "running" /\ call'.i = 1) =>
              signals'[call'.target].cache = call'.payload]_vars

C26_Witness ==
    /\ call.op = "connect"
    /\ call.state = "returned"
    /\ call.slot = "temp_func"
    /\ calls = <<CallOf("temp_func", Payload(1))>>
    /\ Count(signals[call.target].slots, "a.slot1") = 1
    /\ Count(signals[call.target].slots, "temp_func") = 1

\* C27: a disconnect that returns removes one connection entry of the
\* callable from the object's signal, the first, when it has any, and
\* nothing otherwise: the callable has one entry less, the other entries
\* are left as they were and in their order, slots() reports one callable
\* less, and no other signal changes.
C27_DisconnectRemovesOneEntry ==
    [][(call'.op = "disconnect" /\ call'.state = "returned") =>
          LET before == signals[call'.target].slots
              after == signals'[call'.target].slots
              mine == {i \in DOMAIN before : before[i].slot = call'.slot}
          IN /\ mine = {} => after = before
             /\ mine # {} =>
                    /\ Len(after) = Len(before) - 1
                    /\ Count(after, call'.slot) = Count(before, call'.slot) - 1
                    /\ \A j \in DOMAIN after :
                           after[j].slot = before[IF j < Min(mine) THEN j ELSE j + 1].slot
                    /\ Cardinality({j \in DOMAIN after : alive'[after[j].slot]})
                           = Len(slots(signals[call'.target])) - 1
             /\ \A s \in SignalIds \ {call'.target} : signals'[s].slots = signals[s].slots]_vars

C27_Witness ==
    /\ call.op = "disconnect"
    /\ call.state = "returned"
    /\ call.slot = "a.slot1"
    /\ Count(signals[call.target].slots, "a.slot1") = 1
    /\ Count(signals[call.target].slots, "temp_func") = 1

\* C28: no signal has a connection entry of a destroyed callable, whether
\* a function or a bound method whose owner is gone, however many times it
\* had been connected; slots() reports live callables only; and an emit
\* calls no destroyed callable and does not fail.
C28_DestroyedSlotsAreRemoved ==
    /\ \A s \in SignalIds :
           /\ \A i \in DOMAIN signals[s].slots : alive[signals[s].slots[i].slot]
           /\ Len(slots(signals[s])) = Len(signals[s].slots)
    /\ \A i \in DOMAIN calls : alive[calls[i].slot]
    /\ call.state # "running" => (call.op = "emit" => call.state = "returned")

C28_Witness ==
    /\ call.op = "del"
    /\ call.slot = "a.slot1"
    /\ call.i = 2
    /\ \E o \in Objects : Count(signals[o].slots, "temp_func") = 1

\* C29 as stated: once made, the signal of an object is the one every
\* later access yields, with the connections and the cache it had, and an
\* operation on the signal of one object changes no other signal.
C29_SameSignalAtEveryAccess ==
    [][/\ \A o \in Objects :
              qarbon_signals[o] # "none" =>
                  /\ qarbon_signals'[o] = qarbon_signals[o]
                  /\ call'.op \in {"get", "delete"} => signals'[o] = signals[o]
       /\ (call'.target # "" /\ alive' = alive) =>
              /\ \A o \in Objects \ {call'.target} : qarbon_signals'[o] = qarbon_signals[o]
              /\ \A s \in SignalIds \ {call'.target} : signals'[s] = signals[s]]_vars

\* C29: every access of the attribute on an object yields the signal made
\* for that object at its first access, with the connections and the cache
\* it has, until the attribute is deleted from the object (del obj.attr):
\* the deletion drops the signal of that object, and the next access makes
\* a new one with no connection and no cache.  An operation on the
\* attribute of one object (an access, connect, disconnect, emit, a
\* deletion) changes the slots and the cache of no other signal: not those
\* of another object, not those of the class attribute.
C29_BoundPerInstance ==
    [][(call'.target # "" /\ alive' = alive) =>
          /\ IF call'.op = "delete"
             THEN /\ qarbon_signals'[call'.target] = "none"
                  /\ signals'[call'.target].slots = <<>>
                  /\ signals'[call'.target].cache = <<>>
             ELSE qarbon_signals'[call'.target] = call'.target
          /\ (call'.op = "get" /\ qarbon_signals[call'.target] # "none") =>
                 signals'[call'.target] = signals[call'.target]
          /\ (call'.op = "get" /\ qarbon_signals[call'.target] = "none") =>
                 /\ signals'[call'.target].slots = <<>>
                 /\ signals'[call'.target].cache = <<>>
          /\ \A o \in Objects \ {call'.target} : qarbon_signals'[o] = qarbon_signals[o]
          /\ \A s \in SignalIds \ {call'.target} : signals'[s] = signals[s]
          /\ call'.state = "running" => call'.sig = call'.target]_vars

\* The signal of o1 has been deleted and made again by a connect, while
\* that of o2 has kept its two entries and its cache.
C29_Witness ==
    /\ qarbon_signals = [o \in Objects |-> o]
    /\ call.op = "connect"
    /\ call.target = "o1"
    /\ signals["o1"].cache = <<>>
    /\ Len(signals["o1"].slots) = 1
    /\ signals["o2"].cache = <<Payload(1)>>
    /\ Len(signals["o2"].slots) = 2
    /\ signals["changed"] = Signal(TRUE)

\* C30: the polling of a step ends once every future of the step is done:
\* a poll that finds them all done does not time out and call update_gui()
\* again, it resumes the generator, so that a run of finitely many steps
\* whose tasks all complete comes to its end.
C30_DonePollsDoNotTimeOut ==
    [][(/\ pc \in {"poll", "wait"}
        /\ futures # <<>>
        /\ \A i \in DOMAIN futures : futures[i] = "done") =>
           pc' # "gui"]_vars

\* C31: on the single-task path, a poll that finds the future done, with a
\* value or with an exception of any type, resumes the generator at once, by
\* send of the value or by throw of the exception; it does not go on to
\* update_gui() for a future that is done.
C31_DoneFutureResumesAtOnce ==
    [][(pc = "poll" /\ IsSingle(task) /\ futures = <<"done">>) =>
           /\ pc' = "gen"
           /\ resumes' = resumes + 1
           /\ resumed'.how = (IF Fails(task.tasks[1]) THEN "throw" ELSE "send")
           /\ polling' = NoPolling]_vars

\* C32: an ordered group with skip_errors=False resumes the generator only
\* when every member is done, however early a member failed; with failing
\* members it throws the exception of the failing member of the lowest
\* index in the group, whatever the order the members completed in.
C32_LowestIndexFailureIsThrown ==
    [][(pc = "wait" /\ IsOrdered(task) /\ ~task.skip_errors /\ resumes' # resumes) =>
           LET failing == {i \in DOMAIN task.tasks : Fails(task.tasks[i])} IN
           /\ Len(futures) = Len(task.tasks)
           /\ \A i \in DOMAIN futures : futures[i] = "done"
           /\ failing # {} =>
                  /\ resumed'.how = "throw"
                  /\ resumed'.v.kind = "exc"
                  /\ resumed'.v.type = Raises(task.tasks[Min(failing)])
                  /\ resumed'.v.val = <<task.tasks[Min(failing)].arg>>]_vars

C32_Witness ==
    /\ IsOrdered(task)
    /\ ~task.skip_errors
    /\ Len(task.tasks) = 2
    /\ task.tasks[1].func = "fail"
    /\ task.tasks[2].func = "fail"
    /\ completed = <<2, 1>>
    /\ resumed = [how |-> "throw", v |-> Exc("ValueError", task.tasks[1].arg)]
    /\ task.tasks[1].arg # task.tasks[2].arg

\* The generator's code is running, the code of a lazy sequence it iterates
\* included.
GenRunning == pc \in {"gen", "lz_wait", "lz_gui", "lz_done", "lz_for"}

\* C33: the generator is resumed inside the with block of the step whose
\* result it receives: the executor is open when it is resumed and stays
\* open and the same while the generator's code runs, up to its next yield,
\* its return or its exception; what the Runner does next, when the resume
\* has returned or raised, is the shutdown of that executor.
C33_ResumedInsideWith ==
    [][/\ resumes' = resumes + 1 =>
              (executor.state = "open" /\ executor' = executor)
       /\ (GenRunning /\ resumed.how \in {"send", "throw"}) =>
              /\ executor.state = "open"
              /\ executor' = executor
              /\ pc' \in {"gen", "lz_wait", "lz_gui", "lz_done", "lz_for", "exit"}
       /\ (pc = "exit" /\ pc' # "exit") =>
              /\ executor'.state = "shutdown"
              /\ executor'.shutdowns = executor.shutdowns + 1
              /\ open' = open - 1
              /\ gen' = gen]_vars

C33_Witness ==
    /\ pc = "exit"
    /\ executor.state = "open"
    /\ gen = "finished"
    /\ segment = "return_received"
    /\ resumed.how = "send"
    /\ IsOrdered(task)

\* C34: the members of an unordered group are not submitted when the group
\* is dispatched but all together at the first advance of its lazy sequence,
\* on the executor of the step, which is open; when the step ends with the
\* sequence never advanced, the executor is shut down with nothing
\* submitted, and a first advance made later submits and runs no member: it
\* fails.
C34_SubmittedAtFirstAdvance ==
    [][/\ (pc = "multi" /\ task.unordered) =>
              (futures' = <<>> /\ lazy'.state = "created")
       /\ (lazy.state = "created" /\ lazy'.state = "running") =>
              /\ executor.state = "open"
              /\ futures = <<>>
              /\ futures' = [i \in 1..Len(lazy.task.tasks) |-> "pending"]
       /\ (lazy.state = "created" /\ lazy'.state = "stale") =>
              (futures = <<>> /\ executor'.state = "shutdown")
       /\ (lazy.state = "stale" /\ lazy'.state \in {"running", "finished"}) =>
              /\ lazy'.state = "finished"
              /\ pulled'.how = "raise"
              /\ futures' = futures]_vars

\* C35: once the lazy sequence of an unordered group has raised, it is
\* finished: whatever the generator's code does next, a further next()
\* included, it hands over no value any more, neither of a member that was
\* done and not yet emitted nor of one still pending, and the members
\* emitted before the failure are not emitted again.
C35_RaisedSequenceIsFinished ==
    [][(pulled.how = "raise" \/ lazy.state = "finished") =>
           /\ pulled'.how \in {"raise", "stop", "none"}
           /\ lazy'.state \in {"finished", "none"}
           /\ emitted' \in {emitted, <<>>}
           /\ lazy'.state = "finished" => emitted' = emitted]_vars

C35_Witness ==
    /\ lazy.state = "finished"
    /\ ~lazy.task.skip_errors
    /\ Len(lazy.task.tasks) = 2
    /\ lazy.task.tasks[1].func = "fail"
    /\ ~Fails(lazy.task.tasks[2])
    /\ futures = <<"done", "done">>
    /\ emitted = <<>>
    /\ pulled.how = "stop"

\* The call op of some thread ends with this step.
Ends(op) ==
    /\ ret'.op = op
    /\ \E t \in DOMAIN threads :
          /\ threads'[t].pc = "idle"
          /\ threads[t].op = op \/ (threads[t].pc = "idle" /\ ret' # ret)

\* C36: called from one thread, Executor() is a lazily created singleton:
\* an instance is created only while the global is None, and stored in it;
\* every Executor(), submit() and map() returns or uses the instance the
\* global holds, which is not shut down, and the global keeps it until a
\* shutdown(); shutdown() shuts that instance down and leaves the global
\* None, and with the global None already it changes nothing.
C36_LazySingleton ==
    [][/\ Len(instances') > Len(instances) =>
              (__EXECUTOR = 0 /\ __EXECUTOR' = Len(instances'))
       /\ (__EXECUTOR # 0 /\ __EXECUTOR' # __EXECUTOR) =>
              (__EXECUTOR' = 0 /\ Ends("shutdown") /\ instances[__EXECUTOR].shutdown)
       /\ (Ends("Executor") \/ Ends("submit") \/ Ends("map")) =>
              /\ ret'.how = "return"
              /\ ret'.inst # 0
              /\ ret'.inst = __EXECUTOR'
              /\ ~instances'[ret'.inst].shutdown
              /\ \A i \in DOMAIN instances' : i # ret'.inst => instances'[i].shutdown
       /\ Ends("shutdown") =>
              /\ ret'.how = "return"
              /\ __EXECUTOR' = 0
              /\ Len(instances') = Len(instances)
              /\ \A i \in DOMAIN instances' : instances'[i].shutdown
              /\ __EXECUTOR = 0 => instances' = instances]_vars

C36_Witness ==
    /\ Len(instances) = 2
    /\ instances[1].shutdown
    /\ ~instances[2].shutdown
    /\ __EXECUTOR = 2
    /\ ret.op = "submit"
    /\ ret.inst = 2
    /\ threads[1] = NoCall

\* C37: with Executor(), submit() and shutdown() called from several
\* threads, an instance that was created and not shut down is the one the
\* global holds, so that there is one at most and a shutdown() will reach
\* it; and no call of submit() is run by an instance after its shutdown.
C37_OneInstanceUnderThreads ==
    /\ \A i \in DOMAIN instances : ~instances[i].shutdown => __EXECUTOR = i
    /\ \A i \in DOMAIN instances : ~instances[i].late

\* C38: SerialExecutor.submit(fn) returns, whatever fn does, a future that
\* is done: with fn's value when fn returned, with what fn raised when it
\* raised, an Exception or not; nothing that fn raises leaves submit.
C38_SerialSubmitReturnsDoneFuture ==
    [][\A t \in DOMAIN threads :
          (/\ threads[t].pc = "call"
           /\ threads'[t].pc = "idle"
           /\ threads[t].op = "submit"
           /\ threads[t].e # 0
           /\ instances[threads[t].e].cls = "serial") =>
              /\ ret'.how = "return"
              /\ ret'.future = (IF threads[t].fn = "returns" THEN "value" ELSE "error")
              /\ ret'.exc = Raised(threads[t].fn)]_vars

C38_Witness ==
    /\ ret.op = "submit"
    /\ ret.how = "return"
    /\ ret.future = "error"
    /\ ret.exc = "SystemExit"
    /\ instances[ret.inst].cls = "serial"

\* C39: with a slot whose body raises, an emit still does not fail: it
\* calls every entry of the list in order, those after the raising slot
\* too, each with the args and kwargs emitted, and returns; and the connect
\* of such a slot to a signal with a cached emit returns.
C39_RaisingSlotIsIsolated ==
    bodies["temp_func"] \in {"raises", "raises_unnamed"} =>
        /\ call.op = "emit" =>
              LET entries == signals[call.target].slots
                  made == IF call.state = "running" THEN call.i - 1 ELSE Len(entries)
              IN /\ call.state \in {"running", "returned"}
                 /\ calls = [i \in 1..made |-> CallOf(entries[i].slot, call.payload[1])]
        /\ (call.op = "connect" /\ ~NoImFunc(call.slot)) => call.state = "returned"

\* C40: when an emit has returned, a callable that had entries in the list
\* when the emit started and has lost none of them was called once for
\* each of them, whatever the slots did to the list during the emit; and a
\* callable connected only during the emit was called once at most.
C40_ReentrantEmit ==
    (call.op = "emit" /\ call.state = "returned") =>
        \A s \in Slots :
            LET before == Cardinality({i \in DOMAIN call.start : call.start[i] = s})
                after == Count(signals[call.sig].slots, s)
                called == Cardinality({i \in DOMAIN calls : calls[i].slot = s})
            IN /\ (before > 0 /\ after >= before) => called = before
               /\ (before = 0 /\ after > 0) => called <= 1

====
